---- MODULE Spec2Model ----
(***************************************************************************)
(* Taxon-to-media resolution of the biodiversity bot:                      *)
(*   searchMacaulayForTaxon, findBestTaxonomyMatch, searchMacaulayByTaxonomy*)
(*   (src/search-macaulay-for-taxon.ts) and getRandomMammalRecord,          *)
(*   generateMammalPost (src/unnamed/part_000).                             *)
(*                                                                         *)
(* Text is modelled as a sequence of one-character strings, so that        *)
(* toLowerCase, includes, startsWith, split and replace are computed and   *)
(* not assumed.                                                            *)
(***************************************************************************)
EXTENDS Integers, Sequences, FiniteSets, TLC

(***************************************************************************)
(* Bounds of the model.                                                    *)
(***************************************************************************)
MaxCandidates == 2
MaxResults == 2

(***************************************************************************)
(* State.                                                                  *)
(***************************************************************************)
\* findBestTaxonomyMatch applied on its own: arguments, result, position.
VARIABLES matchData, matchTerm, matchType, matchResult, mpc

\* One call of searchMacaulayForTaxon: position, arguments, locals, return value.
VARIABLES spc, taxonCode, includeChildTaxa, browser, mainPageResponse, apiUrl,
          apiResponse, jsonData, sessionRet, exitPath

\* The browsers that puppeteer.launch has started and browser.close has not ended.
VARIABLES openBrowsers

\* main() of search-macaulay-for-taxon.ts: position.
VARIABLES cpc

\* One call of searchMacaulayByTaxonomy: position, arguments (searchTerm, searchType),
\* locals, return value, and the number of calls so far.
VARIABLES tpc, termArg, typeArg, commonName, byTaxonomyRet, lookups

\* generateMammalPost: position, argument, locals, thrown error; rerollCount is the
\* local of getRandomMammalRecord; speciesTier records how the species-tier search
\* of the current attempt ended; waitedMs is the time spent in backoff delays.
VARIABLES epc, testSpeciesSciName, attempts, searchResult, selectedMammal, rerollCount,
          speciesTier, waitedMs, randomAssetId, actualTaxonomy, postMammal,
          displaySciName, imageSpeciesSciName, error

\* One call of getRandomMammalRecord on its own: position, argument (records) and
\* the indices drawn so far; its locals are rerollCount and selectedMammal.
VARIABLES gpc, records, drawn

\* generateBirdPost: position, locals (attempts, assetIds, selectedBird,
\* randomAssetId), thrown error; birdSearch is the value searchMacaulayForTaxon
\* resolved to, of which the code keeps assetIds only; queries is the list of the
\* taxon codes queried so far.
VARIABLES bpc, birdAttempts, assetIds, birdSearch, selectedBird, birdAssetId,
          birdError, queries

\* The text of the post that generateBirdPost or generateMammalPost returns.
VARIABLES text

matchVars == <<matchData, matchTerm, matchType, matchResult, mpc>>
birdVars == <<bpc, birdAttempts, assetIds, birdSearch, selectedBird, birdAssetId,
              birdError, queries>>
postVars == <<text>>
samplerVars == <<gpc, records, drawn>>
sessVars == <<spc, taxonCode, includeChildTaxa, browser, mainPageResponse, apiUrl,
              apiResponse, jsonData, sessionRet, exitPath, openBrowsers>>
cliVars == <<cpc>>
taxVars == <<tpc, termArg, typeArg, commonName, byTaxonomyRet, lookups>>
engineVars == <<epc, testSpeciesSciName, attempts, searchResult, selectedMammal,
                rerollCount, speciesTier, waitedMs, randomAssetId, actualTaxonomy,
                postMammal, displaySciName, imageSpeciesSciName, error>>

vars == <<matchVars, sessVars, cliVars, taxVars, engineVars, samplerVars, birdVars, postVars>>

(***************************************************************************)
(* JavaScript values.                                                      *)
(***************************************************************************)
\* A missing string property (undefined): no text holds a multi-character element.
Undefined == <<"undefined">>
\* null / undefined where an object is expected.
Null == [null |-> TRUE]
\* An assetId for which typeof id === 'number' is false.
NotANumber == -1

UpperCase == <<"A","B","C","D","E","F","G","H","I","J","K","L","M",
               "N","O","P","Q","R","S","T","U","V","W","X","Y","Z">>
LowerCase == <<"a","b","c","d","e","f","g","h","i","j","k","l","m",
               "n","o","p","q","r","s","t","u","v","w","x","y","z">>

LowerChar(c) ==
  IF \E i \in 1..26 : UpperCase[i] = c
  THEN LowerCase[CHOOSE i \in 1..26 : UpperCase[i] = c]
  ELSE c

\* String.prototype.toLowerCase
toLowerCase(s) == [i \in 1..Len(s) |-> LowerChar(s[i])]

\* String.prototype.includes
includes(s, sub) ==
  \E k \in 0..(Len(s) - Len(sub)) : \A i \in 1..Len(sub) : s[k + i] = sub[i]

\* String.prototype.startsWith
startsWith(s, prefix) ==
  /\ Len(prefix) <= Len(s)
  /\ \A i \in 1..Len(prefix) : s[i] = prefix[i]

\* String.prototype.indexOf, 1-based; 0 when sub does not occur.
indexOf(s, sub) ==
  IF includes(s, sub)
  THEN 1 + CHOOSE k \in 0..(Len(s) - Len(sub)) :
             /\ \A i \in 1..Len(sub) : s[k + i] = sub[i]
             /\ \A j \in 0..(k - 1) : \E i \in 1..Len(sub) : s[j + i] # sub[i]
  ELSE 0

MinOf(S) == CHOOSE i \in S : \A j \in S : i <= j

\* Sequences over S of length at most n.
SeqUpTo(S, n) == UNION {[1..k -> S] : k \in 0..n}

(***************************************************************************)
(* Words used by the code and by the inputs.                               *)
(***************************************************************************)
W_species == <<"s","p","e","c","i","e","s">>
W_family == <<"f","a","m","i","l","y">>
W_dead == <<"d","e","a","d">>
Comma == <<",">>
Dash == <<"-">>
Space == <<" ">>

(***************************************************************************)
(* findBestTaxonomyMatch                                                   *)
(***************************************************************************)
\* A parsed JSON body: an array of items, or some other JSON value.
JsonArray(items) == [kind |-> "array", items |-> items]
JsonObject == [kind |-> "object", items |-> <<>>]
IsArray(json) == json.kind = "array"

\* item.name?.toLowerCase() || ''
itemName(item) == IF item.name = Undefined THEN <<>> ELSE toLowerCase(item.name)

scientificNameMatch(item, searchLower) ==
  \/ includes(itemName(item), Space \o Dash \o Space \o searchLower)
  \/ includes(itemName(item), Dash \o Space \o searchLower)

\* item.code?.includes(`,${searchType}`) || false
typeMatch(item, searchType) ==
  /\ item.code # Undefined
  /\ includes(item.code, Comma \o searchType)

\* Mutant: the exact-match filter forgets the requested type.
exactMatchesAnyType(items, searchTerm, searchType) ==
  SelectSeq(items, LAMBDA item : scientificNameMatch(item, toLowerCase(searchTerm)))

exactMatches(items, searchTerm, searchType) ==
  SelectSeq(items, LAMBDA item :
     scientificNameMatch(item, toLowerCase(searchTerm)) /\ typeMatch(item, searchType))

\* Mutant: the type filter is skipped, so the last resort is taken too early.
typeMatchesNone(items, searchType) == <<>>

typeMatches(items, searchType) ==
  SelectSeq(items, LAMBDA item : typeMatch(item, searchType))

\* Mutant: without the last resort, candidates that do not name the rank give null.
findBestWithoutLastResort(taxonomyData, searchTerm, searchType) ==
  IF ~IsArray(taxonomyData) \/ Len(taxonomyData.items) = 0
  THEN Null
  ELSE IF Len(exactMatches(taxonomyData.items, searchTerm, searchType)) > 0
       THEN exactMatches(taxonomyData.items, searchTerm, searchType)[1]
       ELSE IF Len(typeMatches(taxonomyData.items, searchType)) > 0
            THEN typeMatches(taxonomyData.items, searchType)[1]
            ELSE Null

findBestTaxonomyMatch(taxonomyData, searchTerm, searchType) ==
  IF ~IsArray(taxonomyData) \/ Len(taxonomyData.items) = 0
  THEN Null
  ELSE IF Len(exactMatches(taxonomyData.items, searchTerm, searchType)) > 0
       THEN exactMatches(taxonomyData.items, searchTerm, searchType)[1]
       ELSE IF Len(typeMatches(taxonomyData.items, searchType)) > 0
            THEN typeMatches(taxonomyData.items, searchType)[1]
            ELSE taxonomyData.items[1]

(***************************************************************************)
(* Inputs of the matcher: display names "<common> - <scientific>", codes   *)
(* "<taxonCode>,<rank>,...", search terms.                                 *)
(***************************************************************************)
N_W_XaYa == <<"W"," ","-"," ","X","a"," ","y","a">>
N_V_Ya == <<"V"," ","-"," ","Y","a">>
N_Uv_Xa == <<"U","-","v"," ","-"," ","X","a">>
N_Ya == <<"Y","a">>
NamePool == {N_W_XaYa, N_V_Ya, N_Uv_Xa, N_Ya, Undefined}

Code_c == <<"c">>
Code_c_species == <<"c">> \o Comma \o W_species
Code_d_family == <<"d">> \o Comma \o W_family
Code_e_sub == <<"e",",","s","u","b">> \o W_species
Code_noTaxon_species == Comma \o W_species
CodePool == {Code_c, Code_c_species, Code_d_family, Code_e_sub, Undefined}

T_xa == <<"x","a">>
T_Ya == <<"Y","a">>
T_XaYa == <<"X","a"," ","y","a">>
TermPool == {T_xa, T_Ya, T_XaYa}

Candidates == [name : NamePool, code : CodePool]
TaxonomyBodies ==
  {JsonArray(items) : items \in SeqUpTo(Candidates, MaxCandidates)} \cup {JsonObject}

InitMatch ==
  /\ matchData \in TaxonomyBodies
  /\ matchTerm \in TermPool
  /\ matchType \in {W_species, W_family}
  /\ matchResult = Null
  /\ mpc = "call"

\* No stand-alone application of the matcher is under way.
MatchIdle ==
  /\ matchData = JsonObject
  /\ matchTerm = <<>>
  /\ matchType = W_species
  /\ matchResult = Null
  /\ mpc = "off"

MatchApply ==
  /\ mpc = "call"
  /\ matchResult' = findBestTaxonomyMatch(matchData, matchTerm, matchType)
  /\ mpc' = "returned"
  /\ UNCHANGED <<matchData, matchTerm, matchType>>

(***************************************************************************)
(* searchMacaulayForTaxon                                                  *)
(***************************************************************************)
\* item.tags: absent, a single string, or a list of strings.
NoTags == [kind |-> "none", val |-> <<>>]
StringTag(s) == [kind |-> "string", val |-> <<s>>]
ListTags(l) == [kind |-> "list", val |-> l]

\* tag.toLowerCase().includes('dead')
isDeadTag(tag) == includes(toLowerCase(tag), W_dead)

\* Mutant: every item is kept.
keepItemAlways(item) == TRUE

\* Mutant: a tags field that is a single string is not looked at.
keepItemListsOnly(item) ==
  IF item.tags.kind = "list"
  THEN ~\E i \in 1..Len(item.tags.val) : isDeadTag(item.tags.val[i])
  ELSE TRUE

\* The predicate of jsonData.filter: keep the item unless a tag holds "dead".
keepItem(item) ==
  IF item.tags.kind = "list"
  THEN ~\E i \in 1..Len(item.tags.val) : isDeadTag(item.tags.val[i])
  ELSE IF item.tags.kind = "string"
       THEN ~isDeadTag(item.tags.val[1])
       ELSE TRUE

filteredResultsOf(json) == SelectSeq(json.items, keepItem)

\* filteredResults.map(item => item.assetId).filter(id => typeof id === 'number')
assetIdsOf(filteredResults) ==
  SelectSeq([i \in 1..Len(filteredResults) |-> filteredResults[i].assetId],
            LAMBDA id : id # NotANumber)

\* The object returned on success; filteredResults is what getAssetDetails closes over.
SearchResults(filteredResults) ==
  [assetIds |-> assetIdsOf(filteredResults), filteredResults |-> filteredResults]

\* filteredResults.find(item => item.assetId === assetId); Null when there is none.
getAssetDetails(result, assetId) ==
  IF \E i \in 1..Len(result.filteredResults) : result.filteredResults[i].assetId = assetId
  THEN result.filteredResults[
         MinOf({i \in 1..Len(result.filteredResults) :
                  result.filteredResults[i].assetId = assetId})]
  ELSE Null

\* A response of page.goto: its status and its body.
Statuses == {200, 404}
Response(status, body) == [status |-> status, body |-> body]
MalformedBody == [kind |-> "malformed", items |-> <<>>]

\* The value of `response?.ok`: HTTPResponse.ok is a method and the code reads it
\* without calling it, so it is a function for every response and undefined for none.
okProperty(response) == IF response = Null THEN "undefined" ELSE "function"
Truthy(v) == v \notin {"undefined", "null", "false"}

\* if (!response?.ok) throw
callFailed(response) == ~Truthy(okProperty(response))

\* Mutant: the finally block closes nothing.
closeNever(b, path) == b

\* Mutant: the finally block closes nothing after a caught error.
closeUnlessThrown(b, path) == IF b = "open" /\ path # "thrown" THEN "closed" ELSE b

\* finally { if (browser) await browser.close() }
closeIfLaunched(b, path) == IF b = "open" THEN "closed" ELSE b

\* The parts of the URL of the search API.
apiBase ==
  <<"h","t","t","p","s",":","/","/","s","e","a","r","c","h",".","m","a","c","a","u","l","a","y","l","i","b","r","a","r","y",".","o","r","g","/","a","p","i","/","v","2","/","s","e","a","r","c","h","?","t","a","x","o","n","C","o","d","e","=">>
apiSort ==
  <<"&","m","e","d","i","a","T","y","p","e","=","p","h","o","t","o","&","s","o","r","t","=","r","a","t","i","n","g","_","r","a","n","k","_","d","e","s","c">>
childTaxaFlag ==
  <<"&","i","n","c","l","u","d","e","C","h","i","l","d","T","a","x","a","=","t","r","u","e">>

\* Mutant: the flag is in every URL.
apiUrlFlagAlways(code, childTaxa) == apiBase \o code \o apiSort \o childTaxaFlag

\* `...search?taxonCode=${taxonCode}&mediaType=photo&sort=rating_rank_desc${
\* includeChildTaxa ? '&includeChildTaxa=true' : ''}`
apiUrlOf(code, childTaxa) ==
  apiBase \o code \o apiSort \o (IF childTaxa THEN childTaxaFlag ELSE <<>>)

\* An exception anywhere in the try block: caught, null is returned.
Throw ==
  /\ sessionRet' = Null
  /\ exitPath' = "thrown"
  /\ spc' = "finally"

Launch ==
  /\ spc = "launch"
  /\ \/ /\ browser' = "open"
        /\ openBrowsers' = openBrowsers + 1
        /\ spc' = "newPage"
        /\ UNCHANGED <<sessionRet, exitPath>>
     \/ /\ Throw
        /\ UNCHANGED <<browser, openBrowsers>>
  /\ UNCHANGED <<taxonCode, includeChildTaxa, mainPageResponse, apiUrl, apiResponse,
                 jsonData>>

NewPage ==
  /\ spc = "newPage"
  /\ \/ /\ spc' = "mainGoto"
        /\ UNCHANGED <<sessionRet, exitPath>>
     \/ Throw
  /\ UNCHANGED <<taxonCode, includeChildTaxa, browser, mainPageResponse, apiUrl,
                 apiResponse, jsonData, openBrowsers>>

\* page.goto of the main site: rejects (timeout, transport error), or resolves to
\* no response, or to a response of some status.
MainGoto ==
  /\ spc = "mainGoto"
  /\ \/ /\ Throw
        /\ UNCHANGED mainPageResponse
     \/ \E r \in {Null} \cup {Response(st, MalformedBody) : st \in Statuses} :
          /\ mainPageResponse' = r
          /\ IF callFailed(r)
             THEN Throw
             ELSE /\ spc' = "apiGoto"
                  /\ UNCHANGED <<sessionRet, exitPath>>
  /\ UNCHANGED <<taxonCode, includeChildTaxa, browser, apiUrl, apiResponse, jsonData,
                 openBrowsers>>

\* page.goto of the search API, apiResponse.json(), the filter and the return.
ApiGoto(Bodies) ==
  /\ spc = "apiGoto"
  /\ apiUrl' = apiUrlOf(taxonCode, includeChildTaxa)
  /\ \/ /\ Throw
        /\ UNCHANGED <<apiResponse, jsonData>>
     \/ \E st \in Statuses, body \in Bodies \cup {MalformedBody} :
          /\ apiResponse' = Response(st, body.kind)
          /\ IF callFailed(Response(st, body.kind)) \/ body = MalformedBody
             THEN /\ Throw
                  /\ UNCHANGED jsonData
             ELSE /\ jsonData' = body
                  /\ spc' = "finally"
                  /\ IF ~IsArray(body)
                     THEN /\ sessionRet' = Null
                          /\ exitPath' = "nonArray"
                     ELSE /\ sessionRet' = SearchResults(filteredResultsOf(body))
                          /\ exitPath' = "result"
     \/ /\ apiResponse' = Null
        /\ IF callFailed(Null)
           THEN Throw
           ELSE spc' = "finally" /\ UNCHANGED <<sessionRet, exitPath>>
        /\ UNCHANGED jsonData
  /\ UNCHANGED <<taxonCode, includeChildTaxa, browser, mainPageResponse, openBrowsers>>

Finally ==
  /\ spc = "finally"
  /\ browser' = closeIfLaunched(browser, exitPath)
  /\ openBrowsers' = IF browser = "open" /\ closeIfLaunched(browser, exitPath) = "closed"
                     THEN openBrowsers - 1
                     ELSE openBrowsers
  /\ spc' = "ret"
  /\ UNCHANGED <<taxonCode, includeChildTaxa, mainPageResponse, apiUrl, apiResponse,
                 jsonData, sessionRet, exitPath>>

\* The locals of a call that has not started.
SessionIdle ==
  /\ spc = "idle"
  /\ taxonCode = <<>>
  /\ includeChildTaxa = FALSE
  /\ browser = "undefined"
  /\ mainPageResponse = Null
  /\ apiUrl = Undefined
  /\ apiResponse = Null
  /\ jsonData = JsonObject
  /\ sessionRet = Null
  /\ exitPath = "none"
  /\ openBrowsers = 0

\* The call has returned and its value has been taken: its locals are gone.
SessionDone ==
  /\ spc' = "idle"
  /\ taxonCode' = <<>>
  /\ includeChildTaxa' = FALSE
  /\ browser' = "undefined"
  /\ mainPageResponse' = Null
  /\ apiUrl' = Undefined
  /\ apiResponse' = Null
  /\ jsonData' = JsonObject
  /\ sessionRet' = Null
  /\ exitPath' = "none"
  /\ UNCHANGED openBrowsers

\* searchMacaulayForTaxon(code, childTaxa) is entered.
SessionCall(code, childTaxa) ==
  /\ spc' = "launch"
  /\ taxonCode' = code
  /\ includeChildTaxa' = childTaxa
  /\ browser' = "undefined"
  /\ mainPageResponse' = Null
  /\ apiUrl' = Undefined
  /\ apiResponse' = Null
  /\ jsonData' = JsonObject
  /\ sessionRet' = Null
  /\ exitPath' = "none"
  /\ UNCHANGED openBrowsers

(***************************************************************************)
(* main() of search-macaulay-for-taxon.ts: one lookup by taxon code.       *)
(***************************************************************************)
Tx_aa1 == <<"a","a","1">>
Tx_bb2 == <<"b","b","2">>
TaxonCodes == {Tx_aa1, Tx_bb2}

T_DeAd == <<"D","e","A","d">>
T_x_dead == <<"x"," ","d","e","a","d">>
T_dea_d == <<"d","e","a"," ","d">>
TagPool == {T_DeAd, T_x_dead, T_dea_d}
TagLists == SeqUpTo({T_DeAd, T_dea_d}, 2)
TagValues == {NoTags} \cup {StringTag(t) : t \in TagPool} \cup {ListTags(l) : l \in TagLists}

Sci_Aa_bb == <<"A","a"," ","b","b">>
Com_Ab == <<"A","b">>
Taxonomy(sciName, comName, category) ==
  [sciName |-> sciName, comName |-> comName, category |-> category]

SearchRecords ==
  [assetId : {1, 2, NotANumber}, tags : TagValues,
   taxonomy : {Taxonomy(Sci_Aa_bb, Com_Ab, "species")}]
SearchBodies ==
  {JsonArray(items) : items \in SeqUpTo(SearchRecords, MaxResults)} \cup {JsonObject}

CliCall ==
  /\ cpc = "start"
  /\ spc = "idle"
  /\ \E code \in TaxonCodes : SessionCall(code, FALSE)
  /\ cpc' = "waiting"

CliReport ==
  /\ cpc = "waiting"
  /\ spc = "ret"
  /\ cpc' = IF sessionRet # Null THEN "printed" ELSE "exit1"
  /\ UNCHANGED sessVars

(***************************************************************************)
(* searchMacaulayByTaxonomy                                                *)
(***************************************************************************)
\* s.split(sep)[0]: the text before the first sep, all of s when sep does not occur.
splitFirst(s, sep) ==
  IF indexOf(s, sep) = 0 THEN s ELSE SubSeq(s, 1, indexOf(s, sep) - 1)

\* s.replace(a, b) with a string pattern: the first occurrence only.
replaceFirst(s, a, b) ==
  IF indexOf(s, a) = 0
  THEN s
  ELSE SubSeq(s, 1, indexOf(s, a) - 1) \o b
       \o SubSeq(s, indexOf(s, a) + Len(a), Len(s))

\* A string that is undefined or empty is falsy.
Falsy(str) == str = Undefined \/ str = <<>>

\* selectedTaxonomy.code?.split(',')[0]
taxonCodeOf(selected) ==
  IF selected.code = Undefined THEN Undefined ELSE splitFirst(selected.code, Comma)

\* selectedTaxonomy.name?.split(' - ')[0]
commonNameOf(selected) ==
  IF selected.name = Undefined
  THEN Undefined
  ELSE splitFirst(selected.name, Space \o Dash \o Space)

TaxonomyIdle ==
  /\ tpc = "idle"
  /\ termArg = <<>>
  /\ typeArg = W_species
  /\ commonName = Undefined
  /\ byTaxonomyRet = Null
  /\ lookups = 0

\* The call has returned and its value has been taken: its locals are gone.
TaxonomyDone ==
  /\ tpc' = "idle"
  /\ termArg' = <<>>
  /\ typeArg' = W_species
  /\ commonName' = Undefined
  /\ byTaxonomyRet' = Null
  /\ UNCHANGED lookups

\* searchMacaulayByTaxonomy(term, type) is entered.
TaxonomyCall(term, type) ==
  /\ tpc' = "fetch"
  /\ termArg' = term
  /\ typeArg' = type
  /\ commonName' = Undefined
  /\ byTaxonomyRet' = Null
  /\ lookups' = lookups + 1

TaxonomyReturnNull ==
  /\ byTaxonomyRet' = Null
  /\ tpc' = "ret"
  /\ UNCHANGED <<commonName, sessVars>>

\* fetch of the name-search endpoint up to the call of searchMacaulayForTaxon:
\* the fetch rejects, or answers with a non-OK status, or with a body that does not
\* parse (all thrown and caught), or with a JSON body.
TaxonomyFetch(Bodies) ==
  /\ tpc = "fetch"
  /\ \/ TaxonomyReturnNull
     \/ \E body \in Bodies :
          IF ~IsArray(body) \/ Len(body.items) = 0
             \/ findBestTaxonomyMatch(body, termArg, typeArg) = Null
             \/ Falsy(taxonCodeOf(findBestTaxonomyMatch(body, termArg, typeArg)))
          THEN TaxonomyReturnNull
          ELSE /\ commonName' =
                    commonNameOf(findBestTaxonomyMatch(body, termArg, typeArg))
               /\ SessionCall(
                    taxonCodeOf(findBestTaxonomyMatch(body, termArg, typeArg)), TRUE)
               /\ tpc' = "session"
               /\ UNCHANGED byTaxonomyRet
  /\ UNCHANGED <<termArg, typeArg, lookups>>

\* The object searchMacaulayByTaxonomy returns on success.
TaxonomyResult(searchResults, type, name) ==
  [assetIds |-> searchResults.assetIds, taxonomyLevel |-> type, commonName |-> name,
   filteredResults |-> searchResults.filteredResults]

\* Mutant: an answer without asset ids is returned as a result.
TaxonomySessionReturnKeepsEmpty ==
  /\ tpc = "session"
  /\ spc = "ret"
  /\ byTaxonomyRet' =
       IF sessionRet = Null
       THEN Null
       ELSE TaxonomyResult(sessionRet, typeArg, commonName)
  /\ tpc' = "ret"
  /\ SessionDone
  /\ UNCHANGED <<termArg, typeArg, commonName, lookups>>

\* searchMacaulayForTaxon has returned into searchMacaulayByTaxonomy.
TaxonomySessionReturn ==
  /\ tpc = "session"
  /\ spc = "ret"
  /\ byTaxonomyRet' =
       IF sessionRet = Null \/ Len(sessionRet.assetIds) = 0
       THEN Null
       ELSE TaxonomyResult(sessionRet, typeArg, commonName)
  /\ tpc' = "ret"
  /\ SessionDone
  /\ UNCHANGED <<termArg, typeArg, commonName, lookups>>

(***************************************************************************)
(* The mammal reference list and getRandomMammalRecord.                    *)
(***************************************************************************)
maxRerolls == 2
maxAttempts == 5
delayMs == 5000

S_Muridae == <<"M","u","r","i","d","a","e">>
S_Soricidae == <<"S","o","r","i","c","i","d","a","e">>
S_Chiroptera == <<"C","h","i","r","o","p","t","e","r","a">>
S_Rodentia == <<"R","o","d","e","n","t","i","a">>
S_Carnivora == <<"C","a","r","n","i","v","o","r","a">>
S_Fa == <<"F","a">>
S_Fc == <<"F","c">>

\* A text of n characters.
LongText(n) == [i \in 1..n |-> "x"]

\* A record of the reference list; continentDistribution is empty in every record
\* of the model.
Mammal(sciName, mainCommonName, order, family, biogeographicRealm, iucnStatus) ==
  [sciName |-> sciName, mainCommonName |-> mainCommonName, order |-> order,
   family |-> family, biogeographicRealm |-> biogeographicRealm,
   iucnStatus |-> iucnStatus]

mammalRecords ==
  << Mammal(<<"A","a","_","b","b">>, <<"A","b">>, S_Carnivora, S_Fa,
            <<"N","e","|","P","a">>, <<"L","C">>),
     Mammal(<<"B","a","_","d","d">>, LongText(295), S_Rodentia, S_Muridae,
            <<"N","e">>, <<"E","N">>),
     Mammal(<<"C","a","_","e","e">>, <<"C","e">>, S_Chiroptera, S_Fc,
            <<>>, <<"?","?">>) >>

\* mammalRecords.find(m => m.sciName === name); Null when there is none.
findMammal(name) ==
  IF \E i \in 1..Len(mammalRecords) : mammalRecords[i].sciName = name
  THEN mammalRecords[MinOf({i \in 1..Len(mammalRecords) : mammalRecords[i].sciName = name})]
  ELSE Null

\* Mutant: the order of the bats is not counted as overrepresented.
shouldRerollBatsKept(mammal) ==
  \/ mammal.family = S_Muridae
  \/ mammal.family = S_Soricidae

shouldReroll(mammal) ==
  \/ mammal.family = S_Muridae
  \/ mammal.family = S_Soricidae
  \/ mammal.order = S_Chiroptera

\* Mutant: the reroll budget is tested with <=, which allows a third reroll.
rerollsOffByOne(mammal, count) == shouldReroll(mammal) /\ count <= maxRerolls

\* if (shouldReroll && rerollCount < maxRerolls)
rerolls(mammal, count) == shouldReroll(mammal) /\ count < maxRerolls

\* while (rerollCount <= maxRerolls)
drawAgain(count) == count <= maxRerolls

SamplerIdle ==
  /\ gpc = "off"
  /\ records = <<>>
  /\ drawn = <<>>

(***************************************************************************)
(* The text of a post.                                                     *)
(***************************************************************************)
maxTextLength == 300
rangeLimit == 280

\* IUCN_STATUS_MAP[category] || 'Unknown'
statusLabel(category) ==
  CASE category = <<"E","X">> -> <<"E","x","t","i","n","c","t">>
    [] category = <<"E","W">> -> <<"E","x","t","i","n","c","t"," ","i","n"," ","t","h","e"," ","W","i","l","d">>
    [] category = <<"C","R">> -> <<"C","r","i","t","i","c","a","l","l","y"," ","E","n","d","a","n","g","e","r","e","d">>
    [] category = <<"E","N">> -> <<"E","n","d","a","n","g","e","r","e","d">>
    [] category = <<"V","U">> -> <<"V","u","l","n","e","r","a","b","l","e">>
    [] category = <<"N","T">> -> <<"N","e","a","r"," ","T","h","r","e","a","t","e","n","e","d">>
    [] category = <<"L","C">> -> <<"L","e","a","s","t"," ","C","o","n","c","e","r","n">>
    [] category = <<"D","D">> -> <<"D","a","t","a"," ","D","e","f","i","c","i","e","n","t">>
    [] category = <<"N","E">> -> <<"N","o","t"," ","E","v","a","l","u","a","t","e","d">>
    [] OTHER -> <<"U","n","k","n","o","w","n">>

\* `IUCN status: ${...}`
footerOf(category) == <<"I","U","C","N"," ","s","t","a","t","u","s",":"," ">> \o statusLabel(category)

\* if (text.length + footer.length < 300) text += footer
withFooter(body, footer) ==
  IF Len(body) + Len(footer) < maxTextLength THEN body \o footer ELSE body

\* Mutant: no text is too long.
tooLongNever(body) == FALSE

\* if (text.length > 300) throw
tooLong(body) == Len(body) > maxTextLength

(***************************************************************************)
(* generateMammalPost                                                      *)
(***************************************************************************)
NoError == [kind |-> "none", count |-> 0]
Error(kind, count) == [kind |-> kind, count |-> count]

\* searchResult && searchResult.assetIds.length > 0
hasAssets(result) == result # Null /\ Len(result.assetIds) > 0

\* Mutant: a species-tier hit is not noticed.
speciesHitNever(result) == FALSE

\* The test after the species-tier search: a hit ends the tier ladder.
speciesHit(result) == hasAssets(result)

\* Mutant: the loop goes on until a pool is found.
loopConditionNoBudget(n, result) == ~hasAssets(result)

\* Mutant: one attempt too many.
loopConditionOffByOne(n, result) == n <= maxAttempts /\ ~hasAssets(result)

\* while (attempts < maxAttempts && (!searchResult || searchResult.assetIds.length === 0))
loopCondition(n, result) == n < maxAttempts /\ ~hasAssets(result)

\* Mutant: the delay is taken after the last attempt too.
shouldDelayAlways(n) == TRUE

\* if (attempts < maxAttempts) wait
shouldDelay(n) == n < maxAttempts

\* Mutant: family rank passes for species-specific.
isSpeciesSpecificOrFamily(category) == category \in {"species", "subspecies", "family"}

\* category === 'species' || category === 'subspecies'
isSpeciesSpecific(category) == category \in {"species", "subspecies"}

\* assetDetails?.taxonomy
taxonomyOf(details) == IF details = Null THEN Null ELSE details.taxonomy

\* Mutant: a species record is accepted in the first attempt only.
acceptByAttempt(taxonomy, target) ==
  /\ ~(taxonomy = Null \/ Falsy(taxonomy.sciName))
  /\ \/ taxonomy.category = "species" /\ attempts <= 1
     \/ /\ taxonomy.category = "subspecies"
        /\ target = Undefined \/ startsWith(taxonomy.sciName, target \o Space)

\* Mutant: the family filter accepts every record that has a scientific name.
acceptAnyNamed(taxonomy, target) == ~(taxonomy = Null \/ Falsy(taxonomy.sciName))

\* Mutant: the filter of sampling mode is used in single-target mode too.
acceptUnpinned(taxonomy, target) ==
  /\ ~(taxonomy = Null \/ Falsy(taxonomy.sciName))
  /\ taxonomy.category \in {"species", "subspecies"}

\* Mutant: the pin compares with the target alone, without the space after it.
acceptPrefixWithoutSpace(taxonomy, target) ==
  /\ ~(taxonomy = Null \/ Falsy(taxonomy.sciName))
  /\ \/ taxonomy.category = "species"
     \/ /\ taxonomy.category = "subspecies"
        /\ target = Undefined \/ startsWith(taxonomy.sciName, target)

\* The filter callback over the family results; target is Undefined in sampling
\* mode and the formatted scientific name of the test species in single-target mode.
acceptTaxonomy(taxonomy, target) ==
  IF taxonomy = Null \/ Falsy(taxonomy.sciName)
  THEN FALSE
  ELSE IF taxonomy.category = "species"
       THEN TRUE
       ELSE IF taxonomy.category = "subspecies"
            THEN IF target = Undefined
                 THEN TRUE
                 ELSE startsWith(taxonomy.sciName, target \o Space)
            ELSE FALSE

speciesSpecificAssets(result, target) ==
  SelectSeq(result.assetIds,
            LAMBDA assetId : acceptTaxonomy(taxonomyOf(getAssetDetails(result, assetId)),
                                            target))

\* selectedMammal.sciName.replace('_', ' ')
formatSciName(sciName) == replaceFirst(sciName, <<"_">>, Space)

\* Mutant: the subspecies name is not cut down.
wholeName(sciName) == sciName

\* parts[0] + ' ' + parts[1] of sciName.split(' ') when there are two parts or more.
firstTwoParts(sciName) ==
  IF indexOf(sciName, Space) = 0
  THEN sciName
  ELSE LET rest == SubSeq(sciName, indexOf(sciName, Space) + 1, Len(sciName))
       IN  splitFirst(sciName, Space) \o Space \o splitFirst(rest, Space)

normalizedSciNameOf(taxonomy) ==
  IF taxonomy.category = "subspecies" THEN firstTwoParts(taxonomy.sciName)
  ELSE taxonomy.sciName

EngineIdle ==
  /\ epc = "off"
  /\ testSpeciesSciName = Undefined
  /\ attempts = 0
  /\ searchResult = Null
  /\ selectedMammal = Null
  /\ rerollCount = 0
  /\ speciesTier = "none"
  /\ waitedMs = 0
  /\ randomAssetId = NotANumber
  /\ actualTaxonomy = Null
  /\ postMammal = Null
  /\ displaySciName = Undefined
  /\ imageSpeciesSciName = Undefined
  /\ error = NoError

\* throw new Error(...)
Raise(kind, count) ==
  /\ error' = Error(kind, count)
  /\ epc' = "failed"

\* Lines 352-364 and 370: the entry, and in single-target mode the species-tier search.
Entry ==
  /\ epc = "entry"
  /\ IF testSpeciesSciName # Undefined
     THEN IF findMammal(testSpeciesSciName) = Null
          THEN /\ Raise("testSpeciesNotFound", 0)
               /\ UNCHANGED <<selectedMammal, speciesTier, taxVars>>
          ELSE /\ selectedMammal' = findMammal(testSpeciesSciName)
               /\ TaxonomyCall(formatSciName(testSpeciesSciName), W_species)
               /\ speciesTier' = "pending"
               /\ epc' = "testSpecies"
               /\ UNCHANGED error
     ELSE /\ epc' = "loopHead"
          /\ UNCHANGED <<selectedMammal, speciesTier, error, taxVars>>
  /\ UNCHANGED <<testSpeciesSciName, attempts, searchResult, rerollCount, waitedMs,
                 randomAssetId, actualTaxonomy, postMammal, displaySciName,
                 imageSpeciesSciName>>
  /\ UNCHANGED sessVars

\* Line 438: the head of the sampling loop.
LoopHead ==
  /\ epc = "loopHead"
  /\ IF loopCondition(attempts, searchResult)
     THEN /\ attempts' = attempts + 1
          /\ rerollCount' = 0
          /\ speciesTier' = "none"
          /\ epc' = "draw"
     ELSE /\ epc' = "afterLoop"
          /\ UNCHANGED <<attempts, rerollCount, speciesTier>>
  /\ UNCHANGED <<testSpeciesSciName, searchResult, selectedMammal, waitedMs,
                 randomAssetId, actualTaxonomy, postMammal, displaySciName,
                 imageSpeciesSciName, error>>
  /\ UNCHANGED <<taxVars, sessVars>>

\* One iteration of the do-while of getRandomMammalRecord; the accepted draw is
\* followed by the species-tier search of line 450, and the local rerollCount is
\* gone with the return of getRandomMammalRecord.
Draw ==
  /\ epc = "draw"
  /\ \E randomIndex \in 1..Len(mammalRecords) :
       IF rerolls(mammalRecords[randomIndex], rerollCount) /\ drawAgain(rerollCount + 1)
       THEN /\ rerollCount' = rerollCount + 1
            /\ UNCHANGED <<epc, selectedMammal, speciesTier, taxVars>>
       ELSE /\ selectedMammal' = mammalRecords[randomIndex]
            /\ TaxonomyCall(formatSciName(mammalRecords[randomIndex].sciName), W_species)
            /\ speciesTier' = "pending"
            /\ epc' = "species"
            /\ rerollCount' = 0
  /\ UNCHANGED <<testSpeciesSciName, attempts, searchResult, waitedMs, randomAssetId,
                 actualTaxonomy, postMammal, displaySciName,
                 imageSpeciesSciName, error>>
  /\ UNCHANGED sessVars

\* Lines 450-459 (sampling) and 370-376 (single target): the species-tier search
\* has returned; a hit ends the ladder, a miss issues the family-tier search.
SpeciesReturn ==
  /\ epc \in {"species", "testSpecies"}
  /\ tpc = "ret"
  /\ speciesTier' = IF byTaxonomyRet # Null /\ Len(byTaxonomyRet.assetIds) > 0
                    THEN "hit" ELSE "miss"
  /\ searchResult' = byTaxonomyRet
  /\ IF speciesHit(byTaxonomyRet)
     THEN /\ epc' = IF epc = "species" THEN "afterLoop" ELSE "select"
          /\ TaxonomyDone
     ELSE /\ epc' = IF epc = "species" THEN "family" ELSE "testFamily"
          /\ TaxonomyCall(selectedMammal.family, W_family)
  /\ UNCHANGED <<testSpeciesSciName, attempts, selectedMammal, rerollCount, waitedMs,
                 randomAssetId, actualTaxonomy, postMammal, displaySciName,
                 imageSpeciesSciName, error>>
  /\ UNCHANGED sessVars

\* Mutant: when nothing passes the filter the unfiltered answer is kept.
familyFilteredKeepsAll(result, target) ==
  IF hasAssets(result) /\ Len(speciesSpecificAssets(result, target)) > 0
  THEN [result EXCEPT !.assetIds = speciesSpecificAssets(result, target)]
  ELSE result

\* The search result after the family-tier filter: the filtered pool, or null when
\* the search failed or nothing passed the filter.
familyFiltered(result, target) ==
  IF hasAssets(result)
  THEN IF Len(speciesSpecificAssets(result, target)) > 0
       THEN [result EXCEPT !.assetIds = speciesSpecificAssets(result, target)]
       ELSE Null
  ELSE result

\* Lines 459-518: the family-tier search of a sampling attempt has returned.
FamilyReturn ==
  /\ epc = "family"
  /\ tpc = "ret"
  /\ searchResult' = familyFiltered(byTaxonomyRet, Undefined)
  /\ IF hasAssets(familyFiltered(byTaxonomyRet, Undefined))
     THEN epc' = "afterLoop"
     ELSE IF shouldDelay(attempts) THEN epc' = "delay" ELSE epc' = "loopHead"
  /\ TaxonomyDone
  /\ UNCHANGED <<testSpeciesSciName, attempts, selectedMammal, rerollCount, speciesTier,
                 waitedMs, randomAssetId, actualTaxonomy, postMammal, displaySciName,
                 imageSpeciesSciName,
                 error>>
  /\ UNCHANGED sessVars

\* Line 516: the backoff delay has elapsed.
Delay ==
  /\ epc = "delay"
  /\ waitedMs' = waitedMs + delayMs
  /\ epc' = "loopHead"
  /\ UNCHANGED <<testSpeciesSciName, attempts, searchResult, selectedMammal, rerollCount,
                 speciesTier, randomAssetId, actualTaxonomy, postMammal, displaySciName,
                 imageSpeciesSciName,
                 error>>
  /\ UNCHANGED <<taxVars, sessVars>>

\* Mutant: without the throw of line 432 an empty family tier falls through to the
\* check after the sampling loop.
TestFamilyReturnFallsThrough ==
  /\ epc = "testFamily"
  /\ tpc = "ret"
  /\ searchResult' = familyFiltered(byTaxonomyRet, formatSciName(selectedMammal.sciName))
  /\ IF hasAssets(familyFiltered(byTaxonomyRet, formatSciName(selectedMammal.sciName)))
     THEN epc' = "select"
     ELSE epc' = "afterLoop"
  /\ TaxonomyDone
  /\ UNCHANGED <<testSpeciesSciName, attempts, selectedMammal, rerollCount, speciesTier,
                 waitedMs, randomAssetId, actualTaxonomy, postMammal, displaySciName,
                 imageSpeciesSciName, error>>
  /\ UNCHANGED sessVars

\* Lines 376-433: the family-tier search of single-target mode has returned.
TestFamilyReturn ==
  /\ epc = "testFamily"
  /\ tpc = "ret"
  /\ searchResult' = familyFiltered(byTaxonomyRet, formatSciName(selectedMammal.sciName))
  /\ IF hasAssets(familyFiltered(byTaxonomyRet, formatSciName(selectedMammal.sciName)))
     THEN epc' = "select" /\ UNCHANGED error
     ELSE Raise("noUsableMediaForTestSpecies", 0)
  /\ TaxonomyDone
  /\ UNCHANGED <<testSpeciesSciName, attempts, selectedMammal, rerollCount, speciesTier,
                 waitedMs, randomAssetId, actualTaxonomy, postMammal, displaySciName,
                 imageSpeciesSciName>>
  /\ UNCHANGED sessVars

\* Lines 522-524: after the sampling loop.
AfterLoop ==
  /\ epc = "afterLoop"
  /\ IF ~hasAssets(searchResult)
     THEN Raise("failedToFindMedia", maxAttempts)
     ELSE epc' = "select" /\ UNCHANGED error
  /\ UNCHANGED <<testSpeciesSciName, attempts, searchResult, selectedMammal, rerollCount,
                 speciesTier, waitedMs, randomAssetId, actualTaxonomy, postMammal,
                 displaySciName, imageSpeciesSciName>>
  /\ UNCHANGED <<taxVars, sessVars>>

\* Mutant: a selection that fails the verification is dropped and the loop head
\* is entered again, which leads to another selection from the pool.
SelectAgainOnFailure ==
  /\ epc = "select"
  /\ \E i \in 1..Len(searchResult.assetIds) :
       LET taxonomy == taxonomyOf(getAssetDetails(searchResult, searchResult.assetIds[i]))
       IN  /\ randomAssetId' = searchResult.assetIds[i]
           /\ actualTaxonomy' = taxonomy
           /\ IF taxonomy = Null \/ ~isSpeciesSpecific(taxonomy.category)
              THEN epc' = "afterLoop"
              ELSE epc' = "compose"
  /\ UNCHANGED <<testSpeciesSciName, attempts, searchResult, selectedMammal, rerollCount,
                 speciesTier, waitedMs, postMammal, displaySciName, imageSpeciesSciName,
                 error>>
  /\ UNCHANGED <<taxVars, sessVars>>

\* Lines 526-540: the final selection and its verification.
Select ==
  /\ epc = "select"
  /\ \E i \in 1..Len(searchResult.assetIds) :
       LET taxonomy == taxonomyOf(getAssetDetails(searchResult, searchResult.assetIds[i]))
       IN  /\ randomAssetId' = searchResult.assetIds[i]
           /\ actualTaxonomy' = taxonomy
           /\ IF taxonomy = Null \/ ~isSpeciesSpecific(taxonomy.category)
              THEN Raise("notSpeciesSpecific", 0)
              ELSE epc' = "compose" /\ UNCHANGED error
  /\ UNCHANGED <<testSpeciesSciName, attempts, searchResult, selectedMammal, rerollCount,
                 speciesTier, waitedMs, postMammal, displaySciName,
                 imageSpeciesSciName>>
  /\ UNCHANGED <<taxVars, sessVars>>

\* Line 556: normalizedSciName.replace(' ', '_'), the name the reference list is
\* searched for.
imageSpeciesSciNameOf(taxonomy) ==
  replaceFirst(normalizedSciNameOf(taxonomy), Space, <<"_">>)

\* Mutant: the reference list is not searched again.
postMammalAsSampled(taxonomy, selected) == selected

\* Lines 544-565: the reference record the post is written from.
postMammalOf(taxonomy, selected) ==
  IF taxonomy # Null /\ ~Falsy(taxonomy.sciName)
     /\ findMammal(replaceFirst(normalizedSciNameOf(taxonomy), Space, <<"_">>)) # Null
  THEN findMammal(replaceFirst(normalizedSciNameOf(taxonomy), Space, <<"_">>))
  ELSE selected

\* Lines 609-612: biogeographicRealm.split('|').map(r => r.trim()).join(', '), for
\* realms written without spaces around them.
RECURSIVE joinRealms(_)
joinRealms(realms) ==
  IF Len(realms) = 0 THEN <<>>
  ELSE IF Len(realms) = 1
       THEN IF realms[1] = "|" THEN <<",", " ">> ELSE realms
       ELSE joinRealms(SubSeq(realms, 1, Len(realms) \div 2))
              \o joinRealms(SubSeq(realms, Len(realms) \div 2 + 1, Len(realms)))

\* Lines 591-598: the common name of the post; the reference records of the model
\* all have a mainCommonName.
displayComNameOf(taxonomy, post) ==
  IF taxonomy.category = "subspecies" /\ ~Falsy(post.mainCommonName)
  THEN post.mainCommonName
  ELSE taxonomy.comName

\* Lines 602 and 609-632: the text of a mammal post before the length check.
mammalTextOf(taxonomy, post) ==
  LET head == displayComNameOf(taxonomy, post) \o <<" ","(">>
                \o normalizedSciNameOf(taxonomy) \o <<")","\n","\n","F","a","m","i","l","y"," ">>
                \o post.family \o <<"\n">>
      footer == footerOf(post.iucnStatus)
      distributionInfo == joinRealms(post.biogeographicRealm)
      body == IF distributionInfo # <<>>
                 /\ Len(distributionInfo) + Len(head) + Len(footer) < rangeLimit
              THEN head \o <<"R","a","n","g","e",":"," ">> \o distributionInfo \o <<"\n">>
              ELSE head
  IN  withFooter(body, footer)

\* Lines 542-640: the reference re-lookup, the names and the text of the post, and
\* the length check.
Compose ==
  /\ epc = "compose"
  /\ postMammal' = postMammalOf(actualTaxonomy, selectedMammal)
  /\ imageSpeciesSciName' = IF actualTaxonomy # Null /\ ~Falsy(actualTaxonomy.sciName)
                            THEN imageSpeciesSciNameOf(actualTaxonomy)
                            ELSE Undefined
  /\ IF /\ actualTaxonomy # Null
        /\ ~Falsy(actualTaxonomy.sciName)
        /\ ~Falsy(actualTaxonomy.comName)
        /\ isSpeciesSpecific(actualTaxonomy.category)
     THEN /\ displaySciName' = normalizedSciNameOf(actualTaxonomy)
          /\ IF tooLong(mammalTextOf(actualTaxonomy,
                                     postMammalOf(actualTaxonomy, selectedMammal)))
             THEN /\ Raise("textTooLong", 0)
                  /\ UNCHANGED text
             ELSE /\ text' = mammalTextOf(actualTaxonomy,
                                         postMammalOf(actualTaxonomy, selectedMammal))
                  /\ epc' = "done"
                  /\ UNCHANGED error
     ELSE /\ Raise("noSpeciesSpecificTaxonomy", 0)
          /\ UNCHANGED <<displaySciName, text>>
  /\ UNCHANGED <<testSpeciesSciName, attempts, searchResult, selectedMammal, rerollCount,
                 speciesTier, waitedMs, randomAssetId, actualTaxonomy>>
  /\ UNCHANGED <<taxVars, sessVars>>

(***************************************************************************)
(* Inputs of a resolution: the test species, the name-search answers and   *)
(* the media index answers.                                                *)
(***************************************************************************)
Sci_Aa_bb_cc == <<"A","a"," ","b","b"," ","c","c">>
Sci_Ba_dd_ff == <<"B","a"," ","d","d"," ","f","f">>
Sci_Aa_bbx_cc == <<"A","a"," ","b","b","x"," ","c","c">>
Sci_Zz_yy == <<"Z","z"," ","y","y">>

TestSpeciesNames == {<<"A","a","_","b","b">>, <<"B","a","_","d","d">>, <<"Q","q","_","q","q">>}

LookupCandidates ==
  { [name |-> <<"A","b"," ","-"," ","A","a"," ","b","b">>, code |-> Tx_aa1 \o Comma \o W_species],
    [name |-> <<"F"," ","-"," ","F","a">>, code |-> Tx_bb2 \o Comma \o W_family],
    [name |-> Undefined, code |-> Code_noTaxon_species] }
LookupBodies ==
  {JsonArray(items) : items \in SeqUpTo(LookupCandidates, MaxCandidates)} \cup {JsonObject}

MediaRecord(assetId, taxonomy, tags) ==
  [assetId |-> assetId, taxonomy |-> taxonomy, tags |-> tags]

MediaRecords ==
  { MediaRecord(1, Taxonomy(Sci_Aa_bb, Com_Ab, "species"), NoTags),
    MediaRecord(2, Taxonomy(Sci_Aa_bb_cc, Com_Ab, "subspecies"), NoTags),
    MediaRecord(2, Taxonomy(Sci_Ba_dd_ff, Com_Ab, "subspecies"), ListTags(<<T_dea_d>>)),
    MediaRecord(1, Taxonomy(S_Fa, Com_Ab, "family"), NoTags),
    MediaRecord(2, Null, NoTags),
    MediaRecord(1, Taxonomy(Sci_Aa_bbx_cc, Com_Ab, "subspecies"), NoTags),
    MediaRecord(1, Taxonomy(Sci_Zz_yy, Undefined, "species"), NoTags),
    MediaRecord(2, Taxonomy(Sci_Aa_bb, Com_Ab, "species"), StringTag(T_DeAd)),
    MediaRecord(NotANumber, Taxonomy(Sci_Aa_bb, Com_Ab, "species"), NoTags) }
MediaBodies ==
  {JsonArray(items) : items \in SeqUpTo(MediaRecords, MaxResults)} \cup {JsonObject}

(***************************************************************************)
(* generateBirdPost                                                        *)
(***************************************************************************)
maxBirdAttempts == 3

Bird(name, sciName, code, family, familyName, range, category) ==
  [English_name_AviList |-> name, Scientific_name |-> sciName,
   Species_code_Cornell_Lab |-> code, Family |-> family,
   Family_English_name |-> familyName, Range |-> range,
   IUCN_Red_List_Category |-> category]

birdRecords ==
  << Bird(<<"A","b">>, Sci_Aa_bb, Tx_aa1, S_Fa, <<"F">>, <<"R"," ","r">>, <<"L","C">>),
     Bird(LongText(290), <<"C","a"," ","e","e">>, Tx_bb2, S_Fc, <<"G">>, <<>>,
          <<"?","?">>),
     Bird(LongText(276), <<"C","a"," ","e","e">>, Tx_bb2, S_Fc, <<"G">>, <<>>,
          <<"?","?">>) >>

\* The answers of the media index to the query of a bird.
BirdMediaRecords ==
  { MediaRecord(1, Taxonomy(Sci_Aa_bb, Com_Ab, "species"), NoTags),
    MediaRecord(2, Taxonomy(S_Fa, Com_Ab, "family"), NoTags),
    MediaRecord(2, Null, NoTags) }
BirdMediaBodies ==
  {JsonArray(items) : items \in SeqUpTo(BirdMediaRecords, MaxResults)} \cup {JsonObject}

\* null where a list of asset ids is expected: no list of ids holds a non-number.
NoIds == <<NotANumber>>

\* assetIds && assetIds.length > 0
hasIds(ids) == ids # NoIds /\ Len(ids) > 0

BirdIdle ==
  /\ bpc = "off"
  /\ birdAttempts = 0
  /\ assetIds = NoIds
  /\ birdSearch = Null
  /\ selectedBird = Null
  /\ birdAssetId = NotANumber
  /\ birdError = NoError
  /\ queries = <<>>

\* Mutant: one attempt too many.
birdLoopConditionOffByOne(n, ids) == n <= maxBirdAttempts /\ ~hasIds(ids)

\* while (attempts < maxAttempts && (!assetIds || assetIds.length === 0))
birdLoopCondition(n, ids) == n < maxBirdAttempts /\ ~hasIds(ids)

\* (await searchMacaulayForTaxon(code))?.assetIds || null
assetIdsOrNull(result) == IF result = Null THEN NoIds ELSE result.assetIds

\* Lines 317-326: the text of a bird post before the length check.
birdTextOf(bird) ==
  LET head == bird.English_name_AviList \o <<" ","(">> \o bird.Scientific_name
                \o <<")","\n","\n","F","a","m","i","l","y"," ">> \o bird.Family \o <<" ","(">>
                \o bird.Family_English_name \o <<")","\n">>
      footer == footerOf(bird.IUCN_Red_List_Category)
      body == IF bird.Range # <<>>
                 /\ Len(bird.Range) + Len(head) + Len(footer) < maxTextLength
              THEN head \o <<"R","a","n","g","e",":"," ">> \o bird.Range \o <<"\n">>
              ELSE head
  IN  withFooter(body, footer)

\* throw new Error(...)
BirdRaise(kind, count) ==
  /\ birdError' = Error(kind, count)
  /\ bpc' = "failed"

\* Line 290: the head of the loop.
BirdLoopHead ==
  /\ bpc = "loopHead"
  /\ IF birdLoopCondition(birdAttempts, assetIds)
     THEN /\ birdAttempts' = birdAttempts + 1
          /\ bpc' = "draw"
     ELSE /\ bpc' = "afterLoop"
          /\ UNCHANGED birdAttempts
  /\ UNCHANGED <<assetIds, birdSearch, selectedBird, birdAssetId, birdError, queries>>
  /\ UNCHANGED <<sessVars, postVars>>

\* Lines 294-298: getRandomBirdRecord and the call of searchMacaulayForTaxon with
\* the code of the bird, includeChildTaxa left at its default.
BirdDraw ==
  /\ bpc = "draw"
  /\ \E randomIndex \in 1..Len(birdRecords) :
       /\ selectedBird' = birdRecords[randomIndex]
       /\ SessionCall(birdRecords[randomIndex].Species_code_Cornell_Lab, FALSE)
       /\ queries' = Append(queries, birdRecords[randomIndex].Species_code_Cornell_Lab)
  /\ bpc' = "search"
  /\ UNCHANGED <<birdAttempts, assetIds, birdSearch, birdAssetId, birdError>>
  /\ UNCHANGED postVars

\* Lines 298-306: the session has returned.
BirdSearchReturn ==
  /\ bpc = "search"
  /\ spc = "ret"
  /\ birdSearch' = sessionRet
  /\ assetIds' = assetIdsOrNull(sessionRet)
  /\ bpc' = IF hasIds(assetIdsOrNull(sessionRet)) THEN "afterLoop" ELSE "loopHead"
  /\ SessionDone
  /\ UNCHANGED <<birdAttempts, selectedBird, birdAssetId, birdError, queries>>
  /\ UNCHANGED postVars

\* Lines 309-311: after the loop.
BirdAfterLoop ==
  /\ bpc = "afterLoop"
  /\ IF ~hasIds(assetIds)
     THEN BirdRaise("failedToFindMedia", maxBirdAttempts)
     ELSE bpc' = "select" /\ UNCHANGED birdError
  /\ UNCHANGED <<birdAttempts, assetIds, birdSearch, selectedBird, birdAssetId, queries>>
  /\ UNCHANGED <<sessVars, postVars>>

\* Lines 313-334: the selection of the asset, the text and its length check.
BirdSelect ==
  /\ bpc = "select"
  /\ \E i \in 1..Len(assetIds) : birdAssetId' = assetIds[i]
  /\ IF tooLong(birdTextOf(selectedBird))
     THEN /\ BirdRaise("textTooLong", 0)
          /\ UNCHANGED text
     ELSE /\ text' = birdTextOf(selectedBird)
          /\ bpc' = "done"
          /\ UNCHANGED birdError
  /\ UNCHANGED <<birdAttempts, assetIds, birdSearch, selectedBird, queries>>
  /\ UNCHANGED sessVars

\* The variables of the stand-alone calls, which no resolution touches.
aloneVars == <<samplerVars, matchVars, cliVars>>

\* main() generates a mammal post, for a test species or not, or a bird post.
Init ==
  /\ MatchIdle
  /\ SamplerIdle
  /\ SessionIdle
  /\ TaxonomyIdle
  /\ cpc = "off"
  /\ text = Undefined
  /\ attempts = 0
  /\ searchResult = Null
  /\ selectedMammal = Null
  /\ rerollCount = 0
  /\ speciesTier = "none"
  /\ waitedMs = 0
  /\ randomAssetId = NotANumber
  /\ actualTaxonomy = Null
  /\ postMammal = Null
  /\ displaySciName = Undefined
  /\ imageSpeciesSciName = Undefined
  /\ error = NoError
  /\ birdAttempts = 0
  /\ assetIds = NoIds
  /\ birdSearch = Null
  /\ selectedBird = Null
  /\ birdAssetId = NotANumber
  /\ birdError = NoError
  /\ queries = <<>>
  /\ \/ /\ epc = "entry"
        /\ testSpeciesSciName \in {Undefined} \cup TestSpeciesNames
        /\ bpc = "off"
     \/ /\ epc = "off"
        /\ testSpeciesSciName = Undefined
        /\ bpc = "loopHead"

Next ==
  \/ Entry /\ UNCHANGED <<birdVars, postVars, aloneVars>>
  \/ LoopHead /\ UNCHANGED <<birdVars, postVars, aloneVars>>
  \/ Draw /\ UNCHANGED <<birdVars, postVars, aloneVars>>
  \/ SpeciesReturn /\ UNCHANGED <<birdVars, postVars, aloneVars>>
  \/ FamilyReturn /\ UNCHANGED <<birdVars, postVars, aloneVars>>
  \/ Delay /\ UNCHANGED <<birdVars, postVars, aloneVars>>
  \/ TestFamilyReturn /\ UNCHANGED <<birdVars, postVars, aloneVars>>
  \/ AfterLoop /\ UNCHANGED <<birdVars, postVars, aloneVars>>
  \/ Select /\ UNCHANGED <<birdVars, postVars, aloneVars>>
  \/ Compose /\ UNCHANGED <<birdVars, aloneVars>>
  \/ TaxonomyFetch(LookupBodies) /\ UNCHANGED <<birdVars, postVars, aloneVars, engineVars>>
  \/ TaxonomySessionReturn /\ UNCHANGED <<birdVars, postVars, aloneVars, engineVars>>
  \/ Launch /\ UNCHANGED <<birdVars, postVars, aloneVars, taxVars, engineVars>>
  \/ NewPage /\ UNCHANGED <<birdVars, postVars, aloneVars, taxVars, engineVars>>
  \/ MainGoto /\ UNCHANGED <<birdVars, postVars, aloneVars, taxVars, engineVars>>
  \/ ApiGoto(IF bpc = "off" THEN MediaBodies ELSE BirdMediaBodies)
       /\ UNCHANGED <<birdVars, postVars, aloneVars, taxVars, engineVars>>
  \/ Finally /\ UNCHANGED <<birdVars, postVars, aloneVars, taxVars, engineVars>>
  \/ BirdLoopHead /\ UNCHANGED <<aloneVars, taxVars, engineVars>>
  \/ BirdDraw /\ UNCHANGED <<aloneVars, taxVars, engineVars>>
  \/ BirdSearchReturn /\ UNCHANGED <<aloneVars, taxVars, engineVars>>
  \/ BirdAfterLoop /\ UNCHANGED <<aloneVars, taxVars, engineVars>>
  \/ BirdSelect /\ UNCHANGED <<aloneVars, taxVars, engineVars>>

Spec == Init /\ [][Next]_vars

(***************************************************************************)
(* A lookup by taxon code from the command line, on its own.               *)
(***************************************************************************)
InitSearch ==
  /\ MatchIdle
  /\ BirdIdle
  /\ text = Undefined
  /\ SamplerIdle
  /\ SessionIdle
  /\ TaxonomyIdle
  /\ EngineIdle
  /\ cpc = "start"

NextSearch ==
  \/ CliCall /\ UNCHANGED <<birdVars, postVars, samplerVars, matchVars, taxVars, engineVars>>
  \/ CliReport /\ UNCHANGED <<birdVars, postVars, samplerVars, matchVars, taxVars, engineVars>>
  \/ Launch /\ UNCHANGED <<birdVars, postVars, samplerVars, matchVars, cliVars, taxVars, engineVars>>
  \/ NewPage /\ UNCHANGED <<birdVars, postVars, samplerVars, matchVars, cliVars, taxVars, engineVars>>
  \/ MainGoto /\ UNCHANGED <<birdVars, postVars, samplerVars, matchVars, cliVars, taxVars, engineVars>>
  \/ ApiGoto(SearchBodies) /\ UNCHANGED <<birdVars, postVars, samplerVars, matchVars, cliVars, taxVars, engineVars>>
  \/ Finally /\ UNCHANGED <<birdVars, postVars, samplerVars, matchVars, cliVars, taxVars, engineVars>>

SpecSearch == InitSearch /\ [][NextSearch]_vars

(***************************************************************************)
(* findBestTaxonomyMatch on its own, over every bounded input.             *)
(***************************************************************************)
InitMatchOnly ==
  /\ InitMatch
  /\ BirdIdle
  /\ text = Undefined
  /\ SamplerIdle
  /\ SessionIdle
  /\ TaxonomyIdle
  /\ EngineIdle
  /\ cpc = "off"

NextMatch == MatchApply /\ UNCHANGED <<birdVars, postVars, samplerVars, sessVars, cliVars, taxVars, engineVars>>

SpecMatch == InitMatchOnly /\ [][NextMatch]_vars

(***************************************************************************)
(* getRandomMammalRecord on its own, over every bounded reference list.    *)
(***************************************************************************)
MaxRecords == 2

S_Eulipotyphla == <<"E","u","l","i","p","o","t","y","p","h","l","a">>

MammalPool ==
  {mammalRecords[i] : i \in 1..Len(mammalRecords)}
    \cup {Mammal(<<"D","a","_","g","g">>, <<"D","g">>, S_Eulipotyphla, S_Soricidae,
                    <<>>, <<"L","C">>)}

ReferenceLists == SeqUpTo(MammalPool, MaxRecords) \ {<<>>}

\* One iteration of the do-while of lines 161-180.
SamplerDraw ==
  /\ gpc = "draw"
  /\ \E randomIndex \in 1..Len(records) :
       /\ selectedMammal' = records[randomIndex]
       /\ drawn' = Append(drawn, randomIndex)
       /\ IF rerolls(records[randomIndex], rerollCount)
          THEN /\ rerollCount' = rerollCount + 1
               /\ gpc' = IF drawAgain(rerollCount + 1) THEN "draw" ELSE "returned"
          ELSE /\ gpc' = "returned"
               /\ UNCHANGED rerollCount
  /\ UNCHANGED <<epc, testSpeciesSciName, attempts, searchResult, speciesTier, waitedMs,
                 randomAssetId, actualTaxonomy, postMammal, displaySciName,
                 imageSpeciesSciName, error>>
  /\ UNCHANGED records

\* getRandomBirdRecord: one draw.
SamplerBirdDraw ==
  /\ gpc = "birdDraw"
  /\ \E randomIndex \in 1..Len(birdRecords) :
       /\ selectedBird' = birdRecords[randomIndex]
       /\ drawn' = Append(drawn, randomIndex)
  /\ gpc' = "birdReturned"
  /\ UNCHANGED <<bpc, birdAttempts, assetIds, birdSearch, birdAssetId, birdError, queries>>
  /\ UNCHANGED records

\* One call of getRandomMammalRecord on some reference list, or one call of
\* getRandomBirdRecord on the list of the birds.
InitSampler ==
  /\ MatchIdle
  /\ BirdIdle
  /\ text = Undefined
  /\ SessionIdle
  /\ TaxonomyIdle
  /\ EngineIdle
  /\ cpc = "off"
  /\ \/ gpc = "draw" /\ records \in ReferenceLists
     \/ gpc = "birdDraw" /\ records = <<>>
  /\ drawn = <<>>

NextSampler ==
  \/ SamplerDraw /\ UNCHANGED <<birdVars, postVars, matchVars, sessVars, cliVars, taxVars>>
  \/ SamplerBirdDraw
       /\ UNCHANGED <<engineVars, postVars, matchVars, sessVars, cliVars, taxVars>>

SpecSampler == InitSampler /\ [][NextSampler]_vars

(***************************************************************************)
(* Properties of findBestTaxonomyMatch.                                    *)
(***************************************************************************)
\* The code of a candidate names the requested rank: it holds ",<rank>".
RankInCode(item, rank) ==
  /\ item.code # Undefined
  /\ \E k \in 1..Len(item.code) :
        /\ k + Len(rank) <= Len(item.code)
        /\ item.code[k] = ","
        /\ SubSeq(item.code, k + 1, k + Len(rank)) = rank

\* The scientific-name segment of a display name "<common> - <scientific>".
SciSegment(name) ==
  IF name = Undefined \/ indexOf(name, Space \o Dash \o Space) = 0
  THEN <<>>
  ELSE SubSeq(name, indexOf(name, Space \o Dash \o Space) + 3, Len(name))

\* The segment contains the term somewhere, in any letter case.
SegmentContainsTerm(item, term) ==
  includes(toLowerCase(SciSegment(item.name)), toLowerCase(term))

\* The lower-cased name holds "- " immediately followed by the lower-cased term.
DashThenTerm(item, term) ==
  /\ item.name # Undefined
  /\ \E k \in 1..Len(item.name) :
        /\ k + 1 + Len(term) <= Len(item.name)
        /\ item.name[k] = "-"
        /\ item.name[k + 1] = " "
        /\ toLowerCase(SubSeq(item.name, k + 2, k + 1 + Len(term))) = toLowerCase(term)

MatchReturned == mpc = "returned" /\ IsArray(matchData) /\ Len(matchData.items) > 0

\* The candidate a three-level first-match-wins priority selects, the first level
\* being the candidates that satisfy P1 and name the rank.
PriorityPick(items, rank, P1(_)) ==
  LET E == {i \in 1..Len(items) : P1(items[i]) /\ RankInCode(items[i], rank)}
      T == {i \in 1..Len(items) : RankInCode(items[i], rank)}
  IN  items[IF E # {} THEN MinOf(E) ELSE IF T # {} THEN MinOf(T) ELSE 1]

\* C9 as stated: the first priority level is "the scientific-name segment contains
\* the search term (any case) and the code matches the rank"; then the first
\* candidate matching the rank; then the first candidate.
C9_AsStated ==
  MatchReturned =>
    matchResult = PriorityPick(matchData.items, matchType,
                               LAMBDA item : SegmentContainsTerm(item, matchTerm))

\* C9 amended: findBestTaxonomyMatch returns the first candidate whose lower-cased
\* display name holds "- " immediately followed by the lower-cased search term (the
\* scientific-name segment begins with the term) and whose code holds ",<rank>";
\* if there is none, the first candidate whose code holds ",<rank>"; if there is
\* none, the first candidate of the sequence.
C9_FirstMatchWins ==
  MatchReturned =>
    matchResult = PriorityPick(matchData.items, matchType,
                               LAMBDA item : DashThenTerm(item, matchTerm))

\* C9 witness: a later candidate of the first level is preferred to an earlier
\* candidate that only names the rank.
C9_Witness ==
  /\ MatchReturned
  /\ Len(matchData.items) = 2
  /\ RankInCode(matchData.items[1], matchType)
  /\ ~DashThenTerm(matchData.items[1], matchTerm)
  /\ DashThenTerm(matchData.items[2], matchTerm)
  /\ matchResult = matchData.items[2]
  /\ matchResult # matchData.items[1]

\* C10: if some candidate's code names the requested rank, the returned candidate's
\* code names the requested rank (the first candidate is returned as a last resort
\* only when no candidate names the rank).
C10_RankRespected ==
  (MatchReturned /\ \E i \in 1..Len(matchData.items) :
                       RankInCode(matchData.items[i], matchType))
    => /\ matchResult # Null
       /\ RankInCode(matchResult, matchType)

\* C10 witness: the first candidate does not name the rank, a later one does and
\* is returned.
C10_Witness ==
  /\ MatchReturned
  /\ Len(matchData.items) = 2
  /\ ~RankInCode(matchData.items[1], matchType)
  /\ RankInCode(matchData.items[2], matchType)
  /\ matchResult = matchData.items[2]

(***************************************************************************)
(* Properties of searchMacaulayForTaxon.                                   *)
(***************************************************************************)
\* Some tag of the item, a single string or a member of a list, holds the letters
\* d, e, a, d in a row, in any letter case.
HoldsDead(tag) ==
  \E k \in 1..Len(tag) :
     /\ k + 3 <= Len(tag)
     /\ LowerChar(tag[k]) = "d"
     /\ LowerChar(tag[k + 1]) = "e"
     /\ LowerChar(tag[k + 2]) = "a"
     /\ LowerChar(tag[k + 3]) = "d"

DeadTagged(item) ==
  /\ item.tags.kind \in {"string", "list"}
  /\ \E i \in 1..Len(item.tags.val) : HoldsDead(item.tags.val[i])

RangeOf(seq) == {seq[i] : i \in 1..Len(seq)}

\* C1: a result of searchMacaulayForTaxon holds no dead-tagged record: not among the
\* filtered records, not behind an id of assetIds, not through getAssetDetails of
\* any id; every id of assetIds is the id of a record of the response that is not
\* dead-tagged; and a record of the response without tags is kept.
C1_NoDeadReturned ==
  sessionRet # Null =>
    /\ \A item \in RangeOf(sessionRet.filteredResults) : ~DeadTagged(item)
    /\ \A id \in RangeOf(sessionRet.assetIds) \cup {1, 2, NotANumber} :
          \/ getAssetDetails(sessionRet, id) = Null /\ id \notin RangeOf(sessionRet.assetIds)
          \/ /\ getAssetDetails(sessionRet, id) # Null
             /\ ~DeadTagged(getAssetDetails(sessionRet, id))
             /\ getAssetDetails(sessionRet, id).assetId = id
             /\ getAssetDetails(sessionRet, id) \in RangeOf(jsonData.items)
    /\ \A item \in RangeOf(jsonData.items) :
          item.tags = NoTags =>
            /\ item \in RangeOf(sessionRet.filteredResults)
            /\ item.assetId # NotANumber => item.assetId \in RangeOf(sessionRet.assetIds)

\* C1 witness: the response holds a record dead-tagged by a single string and a
\* record of the same id that is not dead-tagged; only the second is returned, in
\* assetIds and through getAssetDetails.
C1_Witness ==
  /\ spc = "ret"
  /\ sessionRet # Null
  /\ Len(jsonData.items) = 2
  /\ DeadTagged(jsonData.items[1])
  /\ jsonData.items[1].tags.kind = "string"
  /\ jsonData.items[1].assetId = 1
  /\ jsonData.items[2].assetId = 1
  /\ ~DeadTagged(jsonData.items[2])
  /\ sessionRet.assetIds = <<1>>
  /\ getAssetDetails(sessionRet, 1) = jsonData.items[2]

\* C7: when searchMacaulayForTaxon returns, no browser it launched is still open.
C7_BrowserClosed ==
  spc = "ret" => browser # "open"

\* C7 witness: the call returns after an error thrown with the browser launched,
\* and the browser is closed.
C7_Witness ==
  /\ spc = "ret"
  /\ exitPath = "thrown"
  /\ mainPageResponse # Null
  /\ browser = "closed"

ResponseOk(response) == response # Null /\ response.status = 200

\* C8 as stated: searchMacaulayForTaxon returns a result object exactly when both
\* responses are OK (200) and the body is an array; a non-OK main page or API
\* response, a thrown navigation and a non-array body each give null.
C8_AsStated ==
  spc = "ret" =>
    (sessionRet # Null <=>
       /\ ResponseOk(mainPageResponse)
       /\ ResponseOk(apiResponse)
       /\ exitPath = "result"
       /\ IsArray(jsonData))

(***************************************************************************)
(* Properties of generateMammalPost.                                       *)
(***************************************************************************)
\* The taxonomy of the record getAssetDetails gives for an id of the held result.
PoolTaxonomy(assetId) == taxonomyOf(getAssetDetails(searchResult, assetId))

HasSpeciesRank(taxonomy) ==
  /\ taxonomy # Null
  /\ taxonomy.category = "species" \/ taxonomy.category = "subspecies"

Sampling == testSpeciesSciName = Undefined

\* C2: when generateMammalPost completes, the record of the selected asset has a
\* taxonomy and its category is species or subspecies.
C2_FinalRankSpecies ==
  epc = "done" =>
    /\ HasSpeciesRank(actualTaxonomy)
    /\ randomAssetId \in RangeOf(searchResult.assetIds)
    /\ PoolTaxonomy(randomAssetId) = actualTaxonomy

\* C2 witness: a post completes for a subspecies asset found by the family tier,
\* out of a response that also held a record the filter rejected.
C2_Witness ==
  /\ epc = "done"
  /\ actualTaxonomy.category = "subspecies"
  /\ searchResult.taxonomyLevel = W_family
  /\ Len(searchResult.filteredResults) > Len(searchResult.assetIds)

\* C3 as stated: at final selection every asset id of the accepted pool has rank
\* species or subspecies, and the failure "Selected asset is not species-specific"
\* never happens.
C3_AsStated ==
  /\ epc = "select" =>
       \A assetId \in RangeOf(searchResult.assetIds) : HasSpeciesRank(PoolTaxonomy(assetId))
  /\ error.kind # "notSpeciesSpecific"

\* C3 amended: at final selection every asset id of a pool accepted from the family
\* tier has a scientific name and rank species or subspecies; a species-tier hit is
\* accepted without classification, so the failure "Selected asset is not
\* species-specific" happens only for a pool of the species tier.
C3_FamilyPoolValidated ==
  /\ (epc = "select" /\ searchResult.taxonomyLevel = W_family) =>
       \A assetId \in RangeOf(searchResult.assetIds) :
          /\ HasSpeciesRank(PoolTaxonomy(assetId))
          /\ ~Falsy(PoolTaxonomy(assetId).sciName)
  /\ error.kind = "notSpeciesSpecific" =>
       /\ searchResult.taxonomyLevel = W_species
       /\ speciesTier = "hit"

\* C3 witness: a family-tier pool reaches the final selection after the filter has
\* rejected a record of the family response.
C3_Witness ==
  /\ epc = "select"
  /\ searchResult.taxonomyLevel = W_family
  /\ \E item \in RangeOf(searchResult.filteredResults) :
        /\ item.assetId # NotANumber
        /\ ~HasSpeciesRank(item.taxonomy)

\* C4: in sampling mode at most 5 attempts are made, with at most 2 name lookups
\* each and at most 4 delays; the exhaustion error reports 5 attempts and is raised
\* after exactly 5 attempts, 10 lookups and 4 delays, with no call in flight.
C4_AttemptBudget ==
  Sampling =>
    /\ attempts <= 5
    /\ lookups <= 2 * attempts
    /\ waitedMs <= 4 * 5000
    /\ error.kind = "failedToFindMedia" =>
         /\ error.count = 5
         /\ attempts = 5
         /\ lookups = 10
         /\ waitedMs = 4 * 5000
         /\ searchResult = Null
         /\ tpc = "idle" /\ spc = "idle"

\* C4 witness: the fifth attempt has failed at both tiers and the call has failed.
C4_Witness ==
  /\ Sampling
  /\ epc = "failed"
  /\ error = Error("failedToFindMedia", 5)
  /\ attempts = 5

FamilySearchInFlight == tpc # "idle" /\ typeArg = W_family
SpeciesSearchInFlight == tpc # "idle" /\ typeArg = W_species

\* C5: a family-tier search is in flight only after the species-tier search of the
\* same attempt has returned null or an empty pool; while the species-tier search
\* is pending it is the only search in flight; after a species-tier hit no
\* family-tier search is issued.
C5_SpeciesBeforeFamily ==
  /\ FamilySearchInFlight => speciesTier = "miss" /\ epc \in {"family", "testFamily"}
  /\ epc \in {"family", "testFamily"} => speciesTier = "miss"
  /\ speciesTier = "pending" => SpeciesSearchInFlight /\ epc \in {"species", "testSpecies"}
  /\ speciesTier = "hit" =>
       /\ ~FamilySearchInFlight
       /\ epc \in {"afterLoop", "select", "compose", "done", "failed"}
       /\ searchResult # Null => searchResult.taxonomyLevel = W_species
  /\ (searchResult # Null /\ searchResult.taxonomyLevel = W_family) => speciesTier = "miss"

\* C5 witness: the media query of a family-tier search is under way after the
\* species tier of the attempt missed.
C5_Witness ==
  /\ epc = "family"
  /\ FamilySearchInFlight
  /\ spc = "apiGoto"
  /\ speciesTier = "miss"
  /\ attempts = 2

\* C6: in sampling mode the delay is entered only after a failed attempt with
\* attempts < 5; attempt N runs with exactly N-1 delays of 5000 ms completed; after
\* a failed attempt N < 5 the loop head is reached with N delays completed, and
\* after the failed 5th attempt with 4.
C6_Backoff ==
  Sampling =>
    /\ epc = "delay" =>
         /\ attempts < 5
         /\ searchResult = Null
         /\ waitedMs = (attempts - 1) * 5000
    /\ epc \in {"draw", "species", "family"} => waitedMs = (attempts - 1) * 5000
    /\ (epc = "loopHead" /\ attempts \in 1..4) =>
         /\ waitedMs = attempts * 5000
         /\ searchResult = Null
    /\ (epc = "loopHead" /\ attempts = 5) => waitedMs = 4 * 5000
    /\ error.kind = "failedToFindMedia" => waitedMs = 4 * 5000

\* C6 witness: the loop head after the failed 5th attempt, reached without a 5th delay.
C6_Witness ==
  /\ Sampling
  /\ epc = "loopHead"
  /\ attempts = 5
  /\ searchResult = Null
  /\ waitedMs = 4 * 5000

(***************************************************************************)
(* The null answer of findBestTaxonomyMatch.                               *)
(***************************************************************************)
\* C11: findBestTaxonomyMatch returns null exactly when the candidate sequence is
\* not an array or is empty; for every non-empty array it returns one of the
\* candidates of the array.
C11_NullOnlyWhenEmpty ==
  mpc = "returned" =>
    /\ matchResult = Null <=> (~IsArray(matchData) \/ Len(matchData.items) = 0)
    /\ (IsArray(matchData) /\ Len(matchData.items) > 0) =>
         \E i \in 1..Len(matchData.items) : matchResult = matchData.items[i]

\* C11 witness: a non-empty array in which no candidate names the requested rank
\* or the term still yields a candidate.
C11_Witness ==
  /\ mpc = "returned"
  /\ IsArray(matchData)
  /\ Len(matchData.items) = 2
  /\ \A i \in 1..2 : ~RankInCode(matchData.items[i], matchType)
  /\ matchResult = matchData.items[1]

(***************************************************************************)
(* The reroll budget of getRandomMammalRecord.                             *)
(***************************************************************************)
Overrepresented(mammal) ==
  mammal.family \in {S_Muridae, S_Soricidae} \/ mammal.order = S_Chiroptera

AllOverrepresented == \A i \in 1..Len(records) : Overrepresented(records[i])

\* C12: on a reference list in which every mammal is overrepresented,
\* getRandomMammalRecord draws again only while fewer than 3 draws were made, and
\* returns after exactly 2 rerolls and exactly 3 draws with the record of the 3rd.
C12_ThirdDrawReturned ==
  AllOverrepresented =>
    /\ gpc = "draw" => (Len(drawn) = rerollCount /\ rerollCount <= 2)
    /\ gpc = "returned" =>
         /\ rerollCount = 2
         /\ Len(drawn) = 3
         /\ selectedMammal = records[drawn[3]]

\* C12 witness: a return on a list of two overrepresented mammals whose three
\* draws were not all the same record.
C12_Witness ==
  /\ AllOverrepresented
  /\ gpc = "returned"
  /\ Len(records) = 2
  /\ records[1] # records[2]
  /\ Len(drawn) = 3
  /\ drawn[2] # drawn[3]
  /\ selectedMammal = records[drawn[3]]

(***************************************************************************)
(* Single-target mode.                                                     *)
(***************************************************************************)
\* C13: with a test species given, at most two searches are issued, the first of
\* rank species and the second of rank family and only after the first gave
\* nothing; no attempt is counted, no draw or reroll is made, no delay is taken and
\* the sampling loop is never entered; after a species-tier miss the call either
\* has a non-empty filtered family pool or has failed with 'No usable media found
\* for test species', and it fails so in no other case.
C13_SingleTargetOnce ==
  /\ ~Sampling =>
       /\ lookups <= 2
       /\ attempts = 0 /\ rerollCount = 0 /\ waitedMs = 0
       /\ epc \notin {"loopHead", "draw", "species", "family", "delay", "afterLoop"}
       /\ SpeciesSearchInFlight => (lookups = 1 /\ epc = "testSpecies")
       /\ FamilySearchInFlight => (lookups = 2 /\ epc = "testFamily")
       /\ lookups = 2 => speciesTier = "miss"
       /\ (speciesTier = "miss" /\ epc # "testFamily") =>
            \/ hasAssets(searchResult)
            \/ epc = "failed" /\ error = Error("noUsableMediaForTestSpecies", 0)
  /\ error.kind = "noUsableMediaForTestSpecies" =>
       /\ ~Sampling
       /\ speciesTier = "miss"
       /\ lookups = 2
       /\ ~hasAssets(searchResult)

\* C13 witness: the failure of single-target mode after both tiers were searched.
C13_Witness ==
  /\ ~Sampling
  /\ epc = "failed"
  /\ error.kind = "noUsableMediaForTestSpecies"
  /\ speciesTier = "miss"
  /\ lookups = 2

\* The pool is the filtered answer of a family-tier search.
FamilyPool == searchResult # Null /\ searchResult.taxonomyLevel = W_family

\* The formatted scientific name of the test species.
TargetName == formatSciName(testSpeciesSciName)

\* The text before the second space of a name, or the name when it has fewer
\* than two spaces: its first two space-separated tokens.
FirstTwoTokens(name) ==
  LET spaces == {i \in 1..Len(name) : name[i] = " "}
      later == {i \in spaces : i > MinOf(spaces)}
  IN  IF spaces = {} \/ later = {} THEN name ELSE SubSeq(name, 1, MinOf(later) - 1)

\* The genus + species form of the name of a record.
GenusSpecies(taxonomy) ==
  IF taxonomy.category = "subspecies" THEN FirstTwoTokens(taxonomy.sciName)
  ELSE taxonomy.sciName

\* C14 as stated: in single-target mode every asset of the family-fallback pool has
\* a scientific name whose genus + species form equals the formatted scientific
\* name of the test species.
C14_AsStated ==
  (~Sampling /\ FamilyPool) =>
    \A assetId \in RangeOf(searchResult.assetIds) :
       /\ PoolTaxonomy(assetId) # Null
       /\ GenusSpecies(PoolTaxonomy(assetId)) = TargetName

\* C14 amended: in single-target mode every asset of the family-fallback pool has a
\* named record that is either of rank species, whatever species it names, or of
\* rank subspecies with a scientific name that starts with the formatted name of
\* the test species followed by a space, so that its genus + species form is the
\* test species; only the subspecies records are pinned to the target.
C14_SubspeciesPinned ==
  (~Sampling /\ FamilyPool) =>
    \A assetId \in RangeOf(searchResult.assetIds) :
       /\ PoolTaxonomy(assetId) # Null
       /\ ~Falsy(PoolTaxonomy(assetId).sciName)
       /\ \/ PoolTaxonomy(assetId).category = "species"
          \/ /\ PoolTaxonomy(assetId).category = "subspecies"
             /\ startsWith(PoolTaxonomy(assetId).sciName, TargetName \o Space)
             /\ GenusSpecies(PoolTaxonomy(assetId)) = TargetName

\* C14 witness: a pinned family pool that holds a subspecies of the target while
\* the family answer also held a subspecies of another species, which was dropped.
C14_Witness ==
  /\ ~Sampling
  /\ epc = "select"
  /\ FamilyPool
  /\ \E assetId \in RangeOf(searchResult.assetIds) :
        /\ PoolTaxonomy(assetId).category = "subspecies"
        /\ GenusSpecies(PoolTaxonomy(assetId)) = TargetName
  /\ \E i \in 1..Len(searchResult.filteredResults) :
        /\ searchResult.filteredResults[i].taxonomy # Null
        /\ searchResult.filteredResults[i].taxonomy.category = "subspecies"
        /\ GenusSpecies(searchResult.filteredResults[i].taxonomy) # TargetName
        /\ searchResult.filteredResults[i].assetId \notin RangeOf(searchResult.assetIds)

(***************************************************************************)
(* The family-tier filter.                                                 *)
(***************************************************************************)
\* The ids the family search returned: the numeric ids of its records, in order.
FamilySearchIds ==
  LET recs == searchResult.filteredResults
      numeric == {i \in 1..Len(recs) : recs[i].assetId # NotANumber}
  IN  SelectSeq([i \in 1..Len(recs) |-> i], LAMBDA i : i \in numeric)

\* The record an id stands for: the first record of the answer with that id.
RecordAt(i) ==
  LET recs == searchResult.filteredResults
  IN  recs[MinOf({j \in 1..Len(recs) : recs[j].assetId = recs[i].assetId})]

\* The record has a taxonomy with a scientific name and rank species or subspecies.
NamedSpeciesRank(record) ==
  /\ record.taxonomy # Null
  /\ record.taxonomy.sciName # Undefined /\ record.taxonomy.sciName # <<>>
  /\ record.taxonomy.category \in {"species", "subspecies"}

\* A subspecies record of another species than the pinned target.
ForeignSubspecies(record) ==
  /\ record.taxonomy.category = "subspecies"
  /\ ~startsWith(record.taxonomy.sciName, TargetName \o Space)

\* The ids of the positions of the family answer that satisfy Keep, in order.
SubPool(Keep(_)) ==
  LET kept == SelectSeq(FamilySearchIds, LAMBDA i : Keep(RecordAt(i)))
  IN  [k \in 1..Len(kept) |-> searchResult.filteredResults[kept[k]].assetId]

\* The family tier has been counted as a miss: no pool is held, and the engine
\* waits, starts the next attempt or has failed.
FamilyMissed ==
  /\ searchResult = Null
  /\ epc \in {"delay", "loopHead", "failed"}

\* C15 as stated: in both modes a filtered family pool is exactly the sub-sequence
\* of the ids of the family answer whose record has a taxonomy with a scientific
\* name and rank species or subspecies, and it is never empty.
C15_AsStated ==
  FamilyPool =>
    /\ searchResult.assetIds = SubPool(NamedSpeciesRank)
    /\ Len(searchResult.assetIds) > 0

\* C15 amended: a filtered family pool is exactly the sub-sequence of the ids of
\* the family answer whose record (the first record with that id) has a taxonomy
\* with a scientific name and rank species or subspecies, in single-target mode
\* without the subspecies that are not of the target; records of any other rank
\* or without taxonomy are rejected; the pool is never empty, and after a
\* family-tier search of a sampling attempt no pool is held unless it is that one.
C15_FamilyPoolExact ==
  /\ (FamilyPool /\ Sampling) =>
       /\ searchResult.assetIds = SubPool(NamedSpeciesRank)
       /\ Len(searchResult.assetIds) > 0
  /\ (FamilyPool /\ ~Sampling) =>
       /\ searchResult.assetIds =
            SubPool(LAMBDA record : NamedSpeciesRank(record) /\ ~ForeignSubspecies(record))
       /\ Len(searchResult.assetIds) > 0
  /\ FamilyPool =>
       \A assetId \in RangeOf(searchResult.assetIds) : HasSpeciesRank(PoolTaxonomy(assetId))
  /\ (speciesTier = "miss" /\ epc \in {"delay", "loopHead", "failed"}
        /\ error.kind \in {"none", "failedToFindMedia", "noUsableMediaForTestSpecies"}) =>
       FamilyMissed

\* C15 witness: a sampling attempt whose family answer held a family-rank record,
\* which was rejected, and a subspecies record, which is the whole pool.
C15_Witness ==
  /\ Sampling
  /\ epc = "afterLoop"
  /\ FamilyPool
  /\ Len(searchResult.filteredResults) = 2
  /\ searchResult.filteredResults[1].taxonomy # Null
  /\ searchResult.filteredResults[1].taxonomy.category = "family"
  /\ searchResult.filteredResults[2].taxonomy # Null
  /\ searchResult.filteredResults[2].taxonomy.category = "subspecies"
  /\ searchResult.assetIds = <<searchResult.filteredResults[2].assetId>>

\* The positions of the family answer whose record is a named subspecies.
SubspeciesPositions ==
  {i \in RangeOf(FamilySearchIds) :
     /\ NamedSpeciesRank(RecordAt(i))
     /\ RecordAt(i).taxonomy.category = "subspecies"}

\* The name begins with the target and a space follows the target.
TargetThenSpace(name) ==
  /\ Len(name) > Len(TargetName)
  /\ SubSeq(name, 1, Len(TargetName)) = TargetName
  /\ name[Len(TargetName) + 1] = " "

\* C16: in a family pool of single-target mode every subspecies record behind an
\* id of the pool has a scientific name that begins with the formatted name of
\* the test species followed by a space; in a family pool of sampling mode the id
\* of every named subspecies record of the family answer is in the pool.
C16_SubspeciesPin ==
  FamilyPool =>
    \A i \in SubspeciesPositions :
       LET assetId == searchResult.filteredResults[i].assetId
       IN  /\ (~Sampling /\ assetId \in RangeOf(searchResult.assetIds)) =>
                TargetThenSpace(RecordAt(i).taxonomy.sciName)
           /\ Sampling => assetId \in RangeOf(searchResult.assetIds)

\* C16 witness: a pinned pool from a family answer that held a subspecies whose
\* name begins with the target but goes on without a space; it is not in the pool.
C16_Witness ==
  /\ ~Sampling
  /\ epc = "select"
  /\ FamilyPool
  /\ \E i \in SubspeciesPositions :
        /\ startsWith(RecordAt(i).taxonomy.sciName, TargetName)
        /\ ~TargetThenSpace(RecordAt(i).taxonomy.sciName)
        /\ searchResult.filteredResults[i].assetId \notin RangeOf(searchResult.assetIds)

(***************************************************************************)
(* The names of the post and the reference record.                         *)
(***************************************************************************)
\* The name with its first space turned into an underscore, the form of the
\* scientific names of the reference list.
Underscored(name) ==
  LET spaces == {i \in 1..Len(name) : name[i] = " "}
  IN  [i \in 1..Len(name) |-> IF spaces # {} /\ i = MinOf(spaces) THEN "_" ELSE name[i]]

\* C17: once the reference list has been searched, the name searched for is, for a
\* selected asset of rank subspecies, the first two space-separated tokens of its
\* scientific name and, for rank species, its scientific name unchanged (in the
\* underscore form of the list); on completion the displayed scientific name is
\* that same genus + species name.
C17_GenusSpeciesName ==
  /\ imageSpeciesSciName # Undefined =>
       /\ actualTaxonomy # Null
       /\ actualTaxonomy.category = "subspecies" =>
            imageSpeciesSciName = Underscored(FirstTwoTokens(actualTaxonomy.sciName))
       /\ actualTaxonomy.category = "species" =>
            imageSpeciesSciName = Underscored(actualTaxonomy.sciName)
  /\ epc = "done" =>
       /\ imageSpeciesSciName # Undefined
       /\ actualTaxonomy.category = "subspecies" =>
            displaySciName = FirstTwoTokens(actualTaxonomy.sciName)
       /\ actualTaxonomy.category = "species" =>
            displaySciName = actualTaxonomy.sciName

\* C17 witness: a completed post for a subspecies asset of three tokens, named by
\* its first two.
C17_Witness ==
  /\ epc = "done"
  /\ actualTaxonomy.category = "subspecies"
  /\ actualTaxonomy.sciName = <<"A","a"," ","b","b"," ","c","c">>
  /\ displaySciName = <<"A","a"," ","b","b">>
  /\ imageSpeciesSciName = <<"A","a","_","b","b">>

(***************************************************************************)
(* Failures of a network call inside a resolution.                         *)
(***************************************************************************)
\* A page.goto of the media session has failed: it was answered with a status
\* other than 200, or the session threw (rejected navigation, timeout, launch
\* failure, body that does not parse).
NetworkCallFailed ==
  \/ exitPath = "thrown"
  \/ mainPageResponse # Null /\ mainPageResponse.status # 200
  \/ apiResponse # Null /\ apiResponse.status # 200

\* C18 as stated: a media session in which a network call failed returns null to
\* searchMacaulayByTaxonomy, which then returns null to the engine; and in sampling
\* mode the engine gives up for lack of media only after its 5 attempts.
C18_AsStated ==
  /\ (spc = "ret" /\ tpc = "session" /\ NetworkCallFailed) => sessionRet = Null
  /\ (Sampling /\ error.kind = "failedToFindMedia") => attempts = maxAttempts

(***************************************************************************)
(* The final verification.                                                 *)
(***************************************************************************)
\* C19: once an asset has been selected whose record has no taxonomy or a rank
\* other than species or subspecies, the call has failed with 'Selected asset is
\* not species-specific' and stays so: no search is running, the selection and the
\* attempt count are those of the failure, and no reference record or display name
\* was produced; the call fails with this error in no other case.
C19_VerificationAborts ==
  /\ (randomAssetId # NotANumber /\ ~HasSpeciesRank(actualTaxonomy)) =>
       /\ epc = "failed"
       /\ error = Error("notSpeciesSpecific", 0)
  /\ error.kind = "notSpeciesSpecific" =>
       /\ epc = "failed"
       /\ tpc = "idle" /\ spc = "idle"
       /\ randomAssetId \in RangeOf(searchResult.assetIds)
       /\ actualTaxonomy = PoolTaxonomy(randomAssetId)
       /\ ~HasSpeciesRank(actualTaxonomy)
       /\ postMammal = Null
       /\ displaySciName = Undefined
  /\ epc \in {"compose", "done"} => HasSpeciesRank(actualTaxonomy)

\* C19 witness: the failure on the first sampling attempt, with a species-rank
\* asset left in the pool and four attempts left.
C19_Witness ==
  /\ Sampling
  /\ epc = "failed"
  /\ error.kind = "notSpeciesSpecific"
  /\ attempts = 1
  /\ \E assetId \in RangeOf(searchResult.assetIds) :
        /\ assetId # randomAssetId
        /\ HasSpeciesRank(PoolTaxonomy(assetId))

\* The entries of the reference list named as the selected asset is, genus +
\* species, in the underscore form of the list.
ReferenceMatches ==
  {i \in 1..Len(mammalRecords) :
     mammalRecords[i].sciName = Underscored(GenusSpecies(actualTaxonomy))}

\* The selected asset has what the text of the post needs.
PostableTaxonomy ==
  /\ HasSpeciesRank(actualTaxonomy)
  /\ actualTaxonomy.sciName # Undefined /\ actualTaxonomy.sciName # <<>>
  /\ actualTaxonomy.comName # Undefined /\ actualTaxonomy.comName # <<>>

\* C20: once the reference record of the post is set, it is the first entry of the
\* reference list whose scientific name is the genus + species name of the selected
\* asset when there is one, and the sampled record otherwise; and with a postable
\* taxonomy the call completes whether or not there is such an entry, unless the
\* text written from the record is longer than 300 characters.
C20_ReferenceRecord ==
  postMammal # Null =>
    /\ epc \in {"done", "failed"}
    /\ HasSpeciesRank(actualTaxonomy)
    /\ (~Falsy(actualTaxonomy.sciName) /\ ReferenceMatches # {}) =>
         postMammal = mammalRecords[MinOf(ReferenceMatches)]
    /\ (Falsy(actualTaxonomy.sciName) \/ ReferenceMatches = {}) =>
         postMammal = selectedMammal
    /\ PostableTaxonomy =>
         \/ epc = "done" /\ error = NoError
         \/ epc = "failed" /\ error = Error("textTooLong", 0)

\* C20 witness: a completed post for an asset whose species is not in the
\* reference list, written from the sampled record.
C20_Witness ==
  /\ epc = "done"
  /\ ReferenceMatches = {}
  /\ postMammal = selectedMammal
  /\ imageSpeciesSciName = <<"A","a","_","b","b","x">>

(***************************************************************************)
(* Bird mode.                                                              *)
(***************************************************************************)
BirdMode == bpc # "off"

\* The codes of the birds of the list.
BirdCodes == {birdRecords[i].Species_code_Cornell_Lab : i \in 1..Len(birdRecords)}

\* C21: bird mode runs at most 3 attempts; each attempt draws a bird and issues
\* one media query, by the code of that bird, with no name lookup and no family
\* search; the loop is left at the first attempt whose pool is not empty, the
\* asset id is taken from that pool, which is the pool of the bird drawn in that
\* attempt; the exhaustion error is raised only after 3 attempts without a pool.
C21_BirdAttempts ==
  BirdMode =>
    /\ birdAttempts <= 3
    /\ Len(queries) = (IF bpc = "draw" THEN birdAttempts - 1 ELSE birdAttempts)
    /\ \A i \in 1..Len(queries) : queries[i] \in BirdCodes
    /\ lookups = 0 /\ tpc = "idle" /\ epc = "off"
    /\ spc # "idle" =>
         /\ bpc = "search"
         /\ taxonCode = selectedBird.Species_code_Cornell_Lab
         /\ queries[birdAttempts] = taxonCode
    /\ hasIds(assetIds) =>
         /\ bpc \in {"afterLoop", "select", "done", "failed"}
         /\ birdError.kind # "failedToFindMedia"
         /\ birdSearch # Null /\ assetIds = birdSearch.assetIds
         /\ queries[Len(queries)] = selectedBird.Species_code_Cornell_Lab
    /\ bpc \in {"select", "done"} => hasIds(assetIds)
    /\ birdAssetId # NotANumber => birdAssetId \in RangeOf(assetIds)
    /\ bpc = "done" => birdAssetId # NotANumber
    /\ (bpc = "afterLoop" /\ ~hasIds(assetIds)) => birdAttempts = 3
    /\ birdError.kind = "failedToFindMedia" =>
         /\ birdError.count = 3
         /\ birdAttempts = 3 /\ Len(queries) = 3
         /\ ~hasIds(assetIds)

\* The second attempt finds a pool, and the second of its ids is selected.
C21_Witness ==
  /\ bpc = "done"
  /\ birdAttempts = 2
  /\ Len(assetIds) = 2
  /\ birdAssetId = assetIds[2]

\* The record of the asset generateBirdPost has selected.
BirdAssetRecord == getAssetDetails(birdSearch, birdAssetId)

\* C22: when generateBirdPost completes, the record of the selected asset has a
\* taxonomy and its category is species or subspecies.
C22_AsStated ==
  bpc = "done" => HasSpeciesRank(taxonomyOf(BirdAssetRecord))

\* The URL of the media query of the session in progress carries the flag.
UrlHasFlag == includes(apiUrl, childTaxaFlag)

\* C23: a session of bird mode has includeChildTaxa false and its URL carries
\* no flag; a session of a mammal family-tier search has includeChildTaxa true
\* and its URL carries the flag; the URL of any session carries the flag exactly
\* when includeChildTaxa is true, and names the taxon code asked for.
C23_ChildTaxa ==
  /\ (BirdMode /\ spc # "idle") =>
        /\ ~includeChildTaxa
        /\ apiUrl # Undefined => ~UrlHasFlag
  /\ (FamilySearchInFlight /\ spc # "idle") =>
        /\ includeChildTaxa
        /\ apiUrl # Undefined => UrlHasFlag
  /\ apiUrl # Undefined =>
        /\ UrlHasFlag <=> includeChildTaxa
        /\ startsWith(apiUrl, apiBase \o taxonCode \o apiSort)

\* The media query of a family-tier search has been issued.
C23_Witness ==
  /\ FamilySearchInFlight
  /\ apiUrl # Undefined
  /\ UrlHasFlag
  /\ sessionRet # Null

(***************************************************************************)
(* The browsers of a resolution.                                           *)
(***************************************************************************)
\* C24: at most one browser is open at a time; a browser is open only inside the
\* session that launched it, between its launch and its finally block; when a
\* session is entered, when it has returned, when a name lookup is pending and
\* when a backoff delay begins no browser is open, and a session that is
\* entered holds no browser of an earlier one.
C24_OneBrowser ==
  /\ openBrowsers \in {0, 1}
  /\ openBrowsers = 1 <=> browser = "open"
  /\ browser = "open" => spc \in {"newPage", "mainGoto", "apiGoto", "finally"}
  /\ spc \in {"idle", "launch", "ret"} => openBrowsers = 0
  /\ spc = "launch" => browser = "undefined"
  /\ tpc = "fetch" => openBrowsers = 0 /\ spc = "idle"
  /\ epc = "delay" => openBrowsers = 0 /\ spc = "idle"

\* The browser of the family-tier session of a second attempt is open: the
\* sessions of the first attempt and of the species tier have come and gone.
C24_Witness ==
  /\ openBrowsers = 1
  /\ FamilySearchInFlight
  /\ attempts = 2
  /\ waitedMs > 0

(***************************************************************************)
(* Classification of a record.                                             *)
(***************************************************************************)
\* The targets a record is classified against: none (sampling mode) or the
\* formatted name of a test species.
ClassifyTargets == {Undefined} \cup {formatSciName(name) : name \in TestSpeciesNames}

\* The record is usable for the target: named, of rank species, or of rank
\* subspecies and, with a target, named by the target and a space.
Usable(record, target) ==
  /\ NamedSpeciesRank(record)
  /\ (record.taxonomy.category = "subspecies" /\ target # Undefined) =>
        /\ Len(record.taxonomy.sciName) > Len(target)
        /\ SubSeq(record.taxonomy.sciName, 1, Len(target) + 1) = target \o <<" ">>

\* C25: in every state of the engine the outcome of the classification of a
\* record against a target is the one the record and the target alone
\* determine, and so is the normalized name of the record: classifying again,
\* whatever the engine has done in between, gives the same.
C25_Pure ==
  \A record \in MediaRecords :
     /\ \A target \in ClassifyTargets :
           acceptTaxonomy(record.taxonomy, target) <=> Usable(record, target)
     /\ NamedSpeciesRank(record) =>
           normalizedSciNameOf(record.taxonomy) = GenusSpecies(record.taxonomy)

\* In a second attempt the family filter has classified one record twice, behind
\* two equal ids of the answer, and kept both.
C25_Witness ==
  /\ Sampling
  /\ attempts = 2
  /\ FamilyPool
  /\ Len(searchResult.assetIds) = 2
  /\ searchResult.assetIds[1] = searchResult.assetIds[2]

(***************************************************************************)
(* The draws of getRandomMammalRecord and getRandomBirdRecord.             *)
(***************************************************************************)
\* The records drawn so far, in the order of the draws.
DrawnRecords == [k \in 1..Len(drawn) |-> records[drawn[k]]]

\* C26: getRandomMammalRecord makes at most 3 draws; every draw before the last
\* one was overrepresented, so the record returned is the first draw that is not
\* overrepresented when there is one; an overrepresented record is returned only
\* as the third of 3 overrepresented draws; getRandomBirdRecord returns the
\* record of its one and only draw.
C26_Draws ==
  /\ gpc \in {"draw", "returned"} =>
       /\ Len(drawn) <= 3
       /\ \A k \in 1..(Len(drawn) - 1) : Overrepresented(DrawnRecords[k])
       /\ gpc = "draw" =>
            /\ Len(drawn) < 3
            /\ \A k \in 1..Len(drawn) : Overrepresented(DrawnRecords[k])
       /\ gpc = "returned" =>
            /\ Len(drawn) >= 1
            /\ selectedMammal = DrawnRecords[Len(drawn)]
            /\ Overrepresented(selectedMammal) => Len(drawn) = 3
  /\ gpc = "birdDraw" => drawn = <<>> /\ selectedBird = Null
  /\ gpc = "birdReturned" =>
       /\ Len(drawn) = 1
       /\ selectedBird = birdRecords[drawn[1]]

\* The third draw is the first that is not overrepresented, and it is returned.
C26_Witness ==
  /\ gpc = "returned"
  /\ Len(drawn) = 3
  /\ ~Overrepresented(selectedMammal)
  /\ Overrepresented(DrawnRecords[1]) /\ Overrepresented(DrawnRecords[2])

(***************************************************************************)
(* Termination and the budget of a mammal resolution.                      *)
(***************************************************************************)
MammalTerminated == epc \in {"done", "failed"}

\* The name lookups and the delays so far are within the budget of the mode.
WithinBudget ==
  /\ Sampling => lookups <= 10 /\ waitedMs <= 4 * delayMs
  /\ ~Sampling => lookups <= 2 /\ waitedMs = 0

\* A step of a mammal resolution: a media session begins only as the session of
\* the name lookup in progress, at most one for each lookup counted; a lookup
\* begins only with the count of the lookups raised by one; the time waited
\* changes only by one delay.
BudgetStep ==
  ~BirdMode =>
    /\ (spc # "launch" /\ spc' = "launch") => (tpc = "fetch" /\ tpc' = "session")
    /\ (tpc # "session" /\ tpc' = "session") => (spc # "launch" /\ spc' = "launch")
    /\ (tpc # "fetch" /\ tpc' = "fetch") => (tpc \in {"idle", "ret"} /\ lookups' = lookups + 1)
    /\ lookups' # lookups => (tpc # "fetch" /\ tpc' = "fetch")
    /\ waitedMs' # waitedMs => (epc = "delay" /\ waitedMs' = waitedMs + delayMs)

\* The place of a position in the order in which the code passes through them;
\* the loop head is the last position of an attempt.
EngineRank ==
  CASE epc = "entry" -> 12
    [] epc = "testSpecies" -> 11
    [] epc = "testFamily" -> 10
    [] epc = "draw" -> 9
    [] epc = "species" -> 8
    [] epc = "family" -> 7
    [] epc = "delay" -> 6
    [] epc = "loopHead" -> 5
    [] epc = "afterLoop" -> 4
    [] epc = "select" -> 3
    [] epc = "compose" -> 2
    [] OTHER -> 0
LookupRank ==
  CASE tpc = "fetch" -> 3 [] tpc = "session" -> 2 [] tpc = "ret" -> 1 [] OTHER -> 0
SessionRank ==
  CASE spc = "launch" -> 6
    [] spc = "newPage" -> 5
    [] spc = "mainGoto" -> 4
    [] spc = "apiGoto" -> 3
    [] spc = "finally" -> 2
    [] spc = "ret" -> 1
    [] OTHER -> 0

\* What is left of the resolution: the attempts, then the positions, then the
\* rerolls.
Remaining ==
  1000 * (5 - attempts) + 100 * EngineRank + 10 * LookupRank + SessionRank
    + (2 - rerollCount)

\* A mammal resolution that has not ended can take a step: no position waits for
\* something other than the return or the failure of a call. The composition of
\* the post, at position "compose", has no condition but its position.
NotStuck ==
  (~BirdMode /\ ~MammalTerminated) =>
    \/ epc = "compose"
    \/ ENABLED (\/ Entry \/ LoopHead \/ Draw \/ SpeciesReturn \/ FamilyReturn \/ Delay
                \/ TestFamilyReturn \/ AfterLoop \/ Select
                \/ TaxonomyFetch(LookupBodies) \/ TaxonomySessionReturn
                \/ Launch \/ NewPage \/ MainGoto \/ ApiGoto(MediaBodies) \/ Finally)

\* C27: every step of a mammal resolution lowers a natural number, what is left
\* of it, and a resolution that has not ended can take a step, so it ends,
\* completed or failed; in sampling mode it makes at most 10 name lookups and
\* takes at most 4 delays, in single-target mode at most 2 lookups and no delay;
\* and in both modes each lookup is followed by at most one media session and no
\* session begins otherwise, so that there are at most 10 sessions, or 2.
C27_TerminatesInBudget ==
  /\ [](WithinBudget /\ NotStuck)
  /\ [](~BirdMode => Remaining >= 0)
  /\ [][BudgetStep /\ (~BirdMode => Remaining' < Remaining)]_vars

\* The resolution has failed after 10 lookups and 4 delays.
C27_Witness ==
  /\ Sampling
  /\ MammalTerminated
  /\ lookups = 10
  /\ waitedMs = 4 * delayMs

(***************************************************************************)
(* The asset selected by generateMammalPost.                               *)
(***************************************************************************)
\* The record getAssetDetails gives for the selected asset.
SelectedRecord == getAssetDetails(searchResult, randomAssetId)

\* C28: once an asset is selected, its id is an id of the pool held; the record
\* getAssetDetails gives for it is a record of the filtered results of the
\* search, has that id and is not dead-tagged; and the taxonomy verified is the
\* taxonomy of that record.
C28_SelectedFromPool ==
  randomAssetId # NotANumber =>
    /\ hasAssets(searchResult)
    /\ randomAssetId \in RangeOf(searchResult.assetIds)
    /\ SelectedRecord # Null
    /\ SelectedRecord \in RangeOf(searchResult.filteredResults)
    /\ SelectedRecord.assetId = randomAssetId
    /\ ~DeadTagged(SelectedRecord)
    /\ epc \in {"compose", "done"} => actualTaxonomy = SelectedRecord.taxonomy

\* A post completes for an id that two records of the answer carry, the second
\* of them of rank family: the id stands for the first.
C28_Witness ==
  /\ epc = "done"
  /\ Len(searchResult.filteredResults) = 2
  /\ searchResult.filteredResults[2].assetId = randomAssetId
  /\ searchResult.filteredResults[2].taxonomy # Null
  /\ searchResult.filteredResults[2].taxonomy.category = "family"
  /\ SelectedRecord = searchResult.filteredResults[1]

(***************************************************************************)
(* The results of searchMacaulayByTaxonomy.                                *)
(***************************************************************************)
\* What the engine and searchMacaulayByTaxonomy hold: no result with an empty
\* pool; a media query is made with a taxon code only.
NoEmptyPool ==
  /\ byTaxonomyRet # Null => Len(byTaxonomyRet.assetIds) > 0
  /\ epc = "loopHead" => (searchResult = Null \/ Len(searchResult.assetIds) > 0)
  /\ tpc = "session" => (taxonCode # Undefined /\ taxonCode # <<>>)

\* A step of searchMacaulayByTaxonomy: the media query is begun only with the
\* code of a candidate the matcher selects for the search; a return without a
\* media query returns null; a return after the media query returns null
\* exactly when the query gave null or no asset id, and the ids of the query
\* otherwise.
ReturnStep ==
  /\ (tpc = "fetch" /\ tpc' = "session") =>
        \E body \in LookupBodies :
           /\ IsArray(body)
           /\ findBestTaxonomyMatch(body, termArg, typeArg) # Null
           /\ taxonCodeOf(findBestTaxonomyMatch(body, termArg, typeArg)) = taxonCode'
  /\ (tpc = "fetch" /\ tpc' = "ret") => byTaxonomyRet' = Null
  /\ (tpc = "session" /\ tpc' = "ret") =>
        /\ byTaxonomyRet' = Null <=> (sessionRet = Null \/ Len(sessionRet.assetIds) = 0)
        /\ byTaxonomyRet' # Null =>
             /\ byTaxonomyRet'.assetIds = sessionRet.assetIds
             /\ byTaxonomyRet'.taxonomyLevel = typeArg

\* C29: searchMacaulayByTaxonomy returns no result with an empty list of asset
\* ids: it returns null when it makes no media query (no candidate selected, or
\* a candidate without a taxon code), when the media query returns null and when
\* it returns no asset id; and at the head of the sampling loop the result held
\* is null or has an asset id.
C29_NeverEmptyPool ==
  /\ []NoEmptyPool
  /\ [][ReturnStep]_vars

\* The head of the loop after a second attempt in which both searches made a
\* media query and returned null.
C29_Witness ==
  /\ epc = "loopHead"
  /\ attempts = 2
  /\ searchResult = Null
  /\ lookups = 4

(***************************************************************************)
(* The length of the text of a post.                                       *)
(***************************************************************************)
\* C30: a text is returned only by a call that completes, and a call that
\* completes returns the text written for its record; a text returned has at
\* most 300 characters; a call that has failed on the length of its text has
\* returned none, and the text written for its record has more than 300.
C30_TextLength ==
  /\ text # Undefined =>
       /\ Len(text) <= 300
       /\ epc = "done" \/ bpc = "done"
  /\ epc = "done" => text = mammalTextOf(actualTaxonomy, postMammal)
  /\ bpc = "done" => text = birdTextOf(selectedBird)
  /\ error.kind = "textTooLong" =>
       /\ epc = "failed" /\ text = Undefined
       /\ Len(mammalTextOf(actualTaxonomy, postMammal)) > 300
  /\ birdError.kind = "textTooLong" =>
       /\ bpc = "failed" /\ text = Undefined
       /\ Len(birdTextOf(selectedBird)) > 300

\* A text of exactly 300 characters is returned.
C30_Witness ==
  /\ bpc = "done"
  /\ text # Undefined
  /\ Len(text) = 300

====
